---- MODULE Spec2Model ----
(***************************************************************************)
(* Access control and sessions of the Kanban team-collaboration backend    *)
(* (routers/auth.py, routers/tasks.py, routers/projects.py,                *)
(* routers/teams.py, models.py).                                           *)
(*                                                                         *)
(* The state is the committed content of the five tables, a record of the  *)
(* last request served (which handler, for which caller, the HTTP status   *)
(* it answered with and the rows or tokens its response body carried), the *)
(* server's clock in seconds, the token pairs that clients hold, and the   *)
(* requests in flight between their existence check and their commit.      *)
(* Every handler is one action: the request is served in one database      *)
(* session, and a request that raises before db.commit() leaves the tables *)
(* as they were (database.py get_db closes the session).                   *)
(*                                                                         *)
(* Text columns are sequences of one-character strings so that strip(),    *)
(* lower() and the ilike substring match can be computed.  Optional        *)
(* integers use NoneId, optional texts NoneText, optional enums NoneEnum.  *)
(***************************************************************************)
EXTENDS Integers, Sequences, FiniteSets, TLC

VARIABLES users, teams, members, projects, tasks, last, now, issued, inflight

vars == <<users, teams, members, projects, tasks, last, now, issued, inflight>>

db == <<users, teams, members, projects, tasks>>

(***************************************************************************)
(* Bounds of the model.                                                    *)
(***************************************************************************)
MaxTeams == 2

MaxProjects == 1

\* token pairs that clients hold at a time
MaxIssued == 2

MaxTasks == 1

\* rows of the users table
MaxUsers == 4

\* requests that are between their existence check and their commit
MaxInflight == 2

(***************************************************************************)
(* Python's None, per type.                                                *)
(***************************************************************************)
NoneId == 0

NoneText == <<"None">>

NoneEnum == "None"

(***************************************************************************)
(* Enumerations of models.py.                                              *)
(***************************************************************************)
UserRole == {"admin", "member"}

TaskStatus == {"todo", "in_progress", "done"}

TeamMemberRole == {"member", "lead", "admin"}

(***************************************************************************)
(* HTTP status codes the handlers answer with.                             *)
(***************************************************************************)
HTTP_200_OK == 200

HTTP_201_CREATED == 201

HTTP_400_BAD_REQUEST == 400

HTTP_401_UNAUTHORIZED == 401

HTTP_403_FORBIDDEN == 403

HTTP_404_NOT_FOUND == 404

HTTP_422_UNPROCESSABLE_ENTITY == 422

HTTP_500_INTERNAL_SERVER_ERROR == 500

(***************************************************************************)
(* Text helpers: str.strip(), str.lower(), and SQL  col ILIKE '%term%'.    *)
(***************************************************************************)
LowerChar(c) ==
    CASE c = "A" -> "a"
      [] c = "B" -> "b"
      [] OTHER -> c

Lower(s) == [i \in 1..Len(s) |-> LowerChar(s[i])]

RECURSIVE LStrip(_)
LStrip(s) ==
    IF s # <<>> /\ Head(s) = " " THEN LStrip(Tail(s)) ELSE s

RECURSIVE RStrip(_)
RStrip(s) ==
    IF s # <<>> /\ s[Len(s)] = " " THEN RStrip(SubSeq(s, 1, Len(s) - 1)) ELSE s

Strip(s) == RStrip(LStrip(s))

Contains(text, term) ==
    \E i \in 1..(Len(text) - Len(term) + 1) :
        SubSeq(text, i, i + Len(term) - 1) = term

ILike(col, term) ==
    /\ col # NoneText
    /\ \/ term = <<>>
       \/ Contains(Lower(col), Lower(term))

(***************************************************************************)
(* schemas.py: the field validators of ProjectBase, TaskBase and TeamBase  *)
(* (name / title: required, stripped; description: stripped, empty -> None)*)
(***************************************************************************)
validate_name_ok(value) == Strip(value) # <<>>

validate_name(value) == Strip(value)

validate_description(value) ==
    IF value # NoneText
    THEN (IF Strip(value) # <<>> THEN Strip(value) ELSE NoneText)
    ELSE value

(***************************************************************************)
(* schemas.py: the validators of UserLogin and UserLoginFlexible.  The     *)
(* alphabet of the model has the capitals A and B, no digit.               *)
(***************************************************************************)
Letters == {"a", "b", "c", "d", "e", "m", "o", "t", "v", "x", "A", "B"}

\* re.match(r'^[a-zA-Z0-9._%+-]+@[a-zA-Z0-9.-]+\.[a-zA-Z]{2,}$', value)
MatchesEmail(value) ==
    \E i, j \in 1..Len(value) :
       /\ 1 < i /\ i + 1 < j /\ j + 2 <= Len(value)
       /\ value[i] = "@"
       /\ value[j] = "."
       /\ \A k \in 1..(i - 1) : value[k] \in Letters \cup {".", "_", "%", "+", "-"}
       /\ \A k \in (i + 1)..(j - 1) : value[k] \in Letters \cup {".", "-"}
       /\ \A k \in (j + 1)..Len(value) : value[k] \in Letters

\* re.match(r'^[a-zA-Z0-9_-]+$', value)
MatchesUsername(value) ==
    /\ value # << >>
    /\ \A k \in 1..Len(value) : value[k] \in Letters \cup {"_", "-"}

\* UserLogin.validate_email: whether the value passes, and what it becomes
UserLogin_email_ok(value) ==
    /\ Strip(value) # << >>
    /\ MatchesEmail(Strip(value))

UserLogin_email(value) == Strip(Lower(value))

\* UserLoginFlexible.validate_email_or_username (min_length=3)
UserLoginFlexible_ok(value) ==
    /\ Len(value) >= 3
    /\ IF \E k \in 1..Len(value) : value[k] = "@"
       THEN MatchesEmail(value)
       ELSE MatchesUsername(value)

UserLoginFlexible_value(value) ==
    IF \E k \in 1..Len(value) : value[k] = "@"
    THEN Strip(Lower(value))
    ELSE Strip(value)

\* characters re's \d and [A-Za-z] match in the passwords of the model
Digits == {"0", "1", "2", "3"}

PasswordLetters == Letters \cup {"i", "l", "n", "r", "s", "w", "P"}

\* UserBase: Field(min_length=5, max_length=255) and validate_email
UserBase_email_ok(value) ==
    /\ Len(value) >= 5
    /\ Len(value) <= 255
    /\ MatchesEmail(value)
    /\ Cardinality({k \in 1..Len(value) : value[k] = "@"}) = 1
    /\ \A k \in 1..Len(value) : value[k] = "@" => k - 1 <= 64 /\ Len(value) - k <= 255

UserBase_email(value) == Strip(Lower(value))

\* UserBase: Field(min_length=3, max_length=50) and validate_username
UserBase_username_ok(value) ==
    /\ Len(value) >= 3
    /\ Len(value) <= 50
    /\ MatchesUsername(value)

UserBase_username(value) == Strip(value)

\* UserCreate.validate_password and PasswordChange.validate_password, after
\* Field(min_length=8, max_length=128)
validate_password_ok(value) ==
    /\ Len(value) >= 8
    /\ Len(value) <= 128
    /\ \E k \in 1..Len(value) : value[k] \in PasswordLetters
    /\ \E k \in 1..Len(value) : value[k] \in Digits

(***************************************************************************)
(* Primary keys: a new row gets the next integer after the largest id in   *)
(* the table (SQLite rowid, the default DATABASE_URL).                     *)
(***************************************************************************)
MaxOf(S) == CHOOSE m \in S : \A x \in S : x <= m

NewId(ids) == IF ids = {} THEN 1 ELSE MaxOf(ids) + 1

(***************************************************************************)
(* Queries the handlers run.                                               *)
(***************************************************************************)
UserExists(user_id) == user_id \in DOMAIN users

TeamExists(team_id) == team_id \in DOMAIN teams

ProjectExists(project_id) == project_id \in DOMAIN projects

TaskExists(task_id) == task_id \in DOMAIN tasks

IsAdmin(u) == users[u].role = "admin"

\* db.query(TeamMember).filter(team_id == t, user_id == u).first() is not None
HasMembership(team_id, user_id) ==
    \E m \in members : m.team_id = team_id /\ m.user_id = user_id

ProjectTasks(project_id) == {t \in DOMAIN tasks : tasks[t].project_id = project_id}

TeamProjects(team_id) == {p \in DOMAIN projects : projects[p].team_id = team_id}

\* restriction of a table to the rows that survive a delete
Without(f, gone) == [k \in (DOMAIN f) \ gone |-> f[k]]

\* response bodies: the task rows and the project rows they carry
NoBody == [tasks |-> {}, projects |-> {}]

TaskBody(task_ids) == [tasks |-> task_ids, projects |-> {}]

ProjectBody(project_ids, task_ids) == [tasks |-> task_ids, projects |-> project_ids]

Served(op, caller, target, code, resp) ==
    [op |-> op, caller |-> caller, target |-> target, code |-> code, resp |-> resp]

\* the handlers of the three resource routers issue no token, and a request is
\* served within one reading of the clock
Reply(op, caller, target, code, resp) ==
    /\ last' = Served(op, caller, target, code, resp)
    /\ UNCHANGED <<now, issued, inflight>>

\* a request that raises HTTPException before any commit
Refuse(op, caller, target, code) ==
    /\ Reply(op, caller, target, code, NoBody)
    /\ UNCHANGED db

(***************************************************************************)
(* routers/tasks.py                                                        *)
(***************************************************************************)

\* check_project_permission: the status it raises, or 200 when it returns
check_project_permission(project_id, current_user) ==
    IF ~ProjectExists(project_id) THEN HTTP_404_NOT_FOUND
    ELSE IF /\ ~IsAdmin(current_user)
            /\ ~HasMembership(projects[project_id].team_id, current_user)
         THEN HTTP_403_FORBIDDEN
    ELSE HTTP_200_OK

\* the rows  query.filter(...)  keeps in get_all_tasks (skip and limit at
\* their defaults 0 and 100, which is more rows than the model holds)
get_all_tasks_rows(current_user, project_id, status, assigned_to_me) ==
    {t \in DOMAIN tasks :
        /\ IsAdmin(current_user) \/ tasks[t].assignee_id = current_user
        /\ project_id # NoneId => tasks[t].project_id = project_id
        /\ status # NoneEnum => tasks[t].status = status
        /\ assigned_to_me => tasks[t].assignee_id = current_user}

get_all_tasks(current_user, project_id, status, assigned_to_me) ==
    IF /\ IsAdmin(current_user)
       /\ project_id # NoneId
       /\ check_project_permission(project_id, current_user) # HTTP_200_OK
    THEN Refuse("get_all_tasks", current_user, NoneId,
                check_project_permission(project_id, current_user))
    ELSE /\ Reply("get_all_tasks", current_user, NoneId, HTTP_200_OK,
                  TaskBody(get_all_tasks_rows(current_user, project_id, status,
                                              assigned_to_me)))
         /\ UNCHANGED db

\* mutant: a member of the project's team may view any task of it
get_task_forbidden_TeamScoped(current_user, task_id) ==
    /\ ~IsAdmin(current_user)
    /\ tasks[task_id].assignee_id # current_user
    /\ ~HasMembership(projects[tasks[task_id].project_id].team_id, current_user)

\* "Members can only see tasks assigned to them"
get_task_forbidden(current_user, task_id) ==
    ~IsAdmin(current_user) /\ tasks[task_id].assignee_id # current_user

get_task(current_user, task_id) ==
    IF ~TaskExists(task_id)
    THEN Refuse("get_task", current_user, task_id, HTTP_404_NOT_FOUND)
    ELSE IF get_task_forbidden(current_user, task_id)
    THEN Refuse("get_task", current_user, task_id, HTTP_403_FORBIDDEN)
    ELSE /\ Reply("get_task", current_user, task_id, HTTP_200_OK,
                  TaskBody({task_id}))
         /\ UNCHANGED db

\* mutant: only a team lead or team admin may create tasks
create_task_forbidden_LeadOnly(current_user, project_id) ==
    /\ ~IsAdmin(current_user)
    /\ ~\E m \in members :
           /\ m.team_id = projects[project_id].team_id
           /\ m.user_id = current_user
           /\ m.role # "member"

\* "Ensure the user can access the project's team (403 if not)"
create_task_forbidden(current_user, project_id) ==
    /\ ~IsAdmin(current_user)
    /\ ~HasMembership(projects[project_id].team_id, current_user)

\* task is a TaskCreate: title, description, status, project_id, assignee_id
create_task(current_user, task) ==
    IF ~validate_name_ok(task.title)
    THEN Refuse("create_task", current_user, NoneId, HTTP_422_UNPROCESSABLE_ENTITY)
    ELSE IF ~ProjectExists(task.project_id)
    THEN Refuse("create_task", current_user, NoneId, HTTP_404_NOT_FOUND)
    ELSE IF create_task_forbidden(current_user, task.project_id)
    THEN Refuse("create_task", current_user, NoneId, HTTP_403_FORBIDDEN)
    ELSE IF task.assignee_id # NoneId /\ ~UserExists(task.assignee_id)
    THEN Refuse("create_task", current_user, NoneId, HTTP_404_NOT_FOUND)
    ELSE LET id == NewId(DOMAIN tasks)
             db_task == [title       |-> validate_name(task.title),
                         description |-> validate_description(task.description),
                         status      |-> task.status,
                         project_id  |-> task.project_id,
                         assignee_id |-> task.assignee_id]
         IN /\ id <= MaxTasks
            /\ tasks' = [t \in (DOMAIN tasks) \cup {id} |->
                            IF t = id THEN db_task ELSE tasks[t]]
            /\ Reply("create_task", current_user, id, HTTP_200_OK, TaskBody({id}))
            /\ UNCHANGED <<users, teams, members, projects>>

\* mutant: the assignee must also belong to the team of the task's project
update_task_forbidden_TeamScoped(current_user, task_id) ==
    /\ ~IsAdmin(current_user)
    /\ \/ tasks[task_id].assignee_id # current_user
       \/ ~HasMembership(projects[tasks[task_id].project_id].team_id, current_user)

\* "Members can only update tasks assigned to them"
update_task_forbidden(current_user, task_id) ==
    ~IsAdmin(current_user) /\ tasks[task_id].assignee_id # current_user

\* the row after  "Update task fields if provided"
update_task_row(task, task_update) ==
    [title       |-> IF task_update.title # NoneText
                     THEN task_update.title ELSE task.title,
     description |-> IF task_update.description # NoneText
                     THEN task_update.description ELSE task.description,
     status      |-> IF task_update.status # NoneEnum
                     THEN task_update.status ELSE task.status,
     project_id  |-> task.project_id,
     assignee_id |-> IF task_update.assignee_id # NoneId
                     THEN task_update.assignee_id ELSE task.assignee_id]

\* task_update is a TaskUpdate: title, description, status, assignee_id
update_task(current_user, task_id, task_update) ==
    IF ~TaskExists(task_id)
    THEN Refuse("update_task", current_user, task_id, HTTP_404_NOT_FOUND)
    ELSE IF update_task_forbidden(current_user, task_id)
    THEN Refuse("update_task", current_user, task_id, HTTP_403_FORBIDDEN)
    ELSE IF task_update.assignee_id # NoneId /\ ~UserExists(task_update.assignee_id)
    THEN Refuse("update_task", current_user, task_id, HTTP_404_NOT_FOUND)
    ELSE /\ tasks' = [tasks EXCEPT ![task_id] = update_task_row(@, task_update)]
         /\ Reply("update_task", current_user, task_id, HTTP_200_OK,
                  TaskBody({task_id}))
         /\ UNCHANGED <<users, teams, members, projects>>

\* "Members can only update status of tasks assigned to them"
update_task_status_forbidden(current_user, task_id) ==
    ~IsAdmin(current_user) /\ tasks[task_id].assignee_id # current_user

update_task_status(current_user, task_id, task_update) ==
    IF ~TaskExists(task_id)
    THEN Refuse("update_task_status", current_user, task_id, HTTP_404_NOT_FOUND)
    ELSE IF update_task_status_forbidden(current_user, task_id)
    THEN Refuse("update_task_status", current_user, task_id, HTTP_403_FORBIDDEN)
    ELSE IF task_update.status = NoneEnum
    THEN Refuse("update_task_status", current_user, task_id,
                HTTP_422_UNPROCESSABLE_ENTITY)
    ELSE /\ tasks' = [tasks EXCEPT ![task_id].status = task_update.status]
         /\ Reply("update_task_status", current_user, task_id, HTTP_200_OK,
                  TaskBody({task_id}))
         /\ UNCHANGED <<users, teams, members, projects>>

\* mutant: a team lead or team admin counts as an administrator
delete_task_forbidden_TeamAdmin(current_user) ==
    /\ ~IsAdmin(current_user)
    /\ ~\E m \in members : m.user_id = current_user /\ m.role \in {"lead", "admin"}

\* "Only admins can delete tasks"
delete_task_forbidden(current_user) == ~IsAdmin(current_user)

delete_task(current_user, task_id) ==
    IF delete_task_forbidden(current_user)
    THEN Refuse("delete_task", current_user, task_id, HTTP_403_FORBIDDEN)
    ELSE IF ~TaskExists(task_id)
    THEN Refuse("delete_task", current_user, task_id, HTTP_404_NOT_FOUND)
    ELSE /\ tasks' = Without(tasks, {task_id})
         /\ Reply("delete_task", current_user, task_id, HTTP_200_OK, NoBody)
         /\ UNCHANGED <<users, teams, members, projects>>

\* the handler checks the task and the user, and nothing about the caller
assign_task(current_user, task_id, user_id) ==
    IF ~TaskExists(task_id)
    THEN Refuse("assign_task", current_user, task_id, HTTP_404_NOT_FOUND)
    ELSE IF ~UserExists(user_id)
    THEN Refuse("assign_task", current_user, task_id, HTTP_404_NOT_FOUND)
    ELSE /\ tasks' = [tasks EXCEPT ![task_id].assignee_id = user_id]
         /\ Reply("assign_task", current_user, task_id, HTTP_200_OK,
                  TaskBody({task_id}))
         /\ UNCHANGED <<users, teams, members, projects>>

unassign_task(current_user, task_id) ==
    IF ~TaskExists(task_id)
    THEN Refuse("unassign_task", current_user, task_id, HTTP_404_NOT_FOUND)
    ELSE /\ tasks' = [tasks EXCEPT ![task_id].assignee_id = NoneId]
         /\ Reply("unassign_task", current_user, task_id, HTTP_200_OK,
                  TaskBody({task_id}))
         /\ UNCHANGED <<users, teams, members, projects>>

(***************************************************************************)
(* routers/projects.py                                                     *)
(***************************************************************************)

\* mutant: no bypass for the global admin
check_team_access_MembersOnly(user, team_id) ==
    IF ~TeamExists(team_id) THEN HTTP_404_NOT_FOUND
    ELSE IF ~HasMembership(team_id, user) THEN HTTP_403_FORBIDDEN
    ELSE HTTP_200_OK

\* mutant: membership in any team gives access to every team
check_team_access_AnyTeam(user, team_id) ==
    IF ~TeamExists(team_id) THEN HTTP_404_NOT_FOUND
    ELSE IF IsAdmin(user) THEN HTTP_200_OK
    ELSE IF ~\E m \in members : m.user_id = user THEN HTTP_403_FORBIDDEN
    ELSE HTTP_200_OK

\* check_team_access: the status it raises, or 200 when it returns the team
check_team_access(user, team_id) ==
    IF ~TeamExists(team_id) THEN HTTP_404_NOT_FOUND
    ELSE IF IsAdmin(user) THEN HTTP_200_OK
    ELSE IF ~HasMembership(team_id, user) THEN HTTP_403_FORBIDDEN
    ELSE HTTP_200_OK

\* mutant: the listing is not narrowed to the caller's teams
get_all_projects_rows_AllTeams(current_user, team_id, search) ==
    {p \in DOMAIN projects :
        /\ team_id # NoneId => projects[p].team_id = team_id
        /\ (search # NoneText /\ search # <<>>) =>
              \/ ILike(projects[p].name, Strip(search))
              \/ ILike(projects[p].description, Strip(search))}

\* the rows  query.filter(...)  keeps in get_all_projects
get_all_projects_rows(current_user, team_id, search) ==
    {p \in DOMAIN projects :
        /\ IsAdmin(current_user) \/ HasMembership(projects[p].team_id, current_user)
        /\ team_id # NoneId => projects[p].team_id = team_id
        /\ (search # NoneText /\ search # <<>>) =>
              \/ ILike(projects[p].name, Strip(search))
              \/ ILike(projects[p].description, Strip(search))}

get_all_projects(current_user, team_id, search) ==
    IF team_id # NoneId /\ check_team_access(current_user, team_id) # HTTP_200_OK
    THEN Refuse("get_all_projects", current_user, NoneId,
                check_team_access(current_user, team_id))
    ELSE /\ Reply("get_all_projects", current_user, NoneId, HTTP_200_OK,
                  ProjectBody(get_all_projects_rows(current_user, team_id, search), {}))
         /\ UNCHANGED db

\* mutant: the creator of a project keeps the access the team gave
get_project_forbidden_CreatorKept(current_user, project_id) ==
    /\ ~IsAdmin(current_user)
    /\ ~HasMembership(projects[project_id].team_id, current_user)
    /\ projects[project_id].creator_id # current_user

\* "Admin can see all, team members can see team projects"
get_project_forbidden(current_user, project_id) ==
    /\ ~IsAdmin(current_user)
    /\ ~HasMembership(projects[project_id].team_id, current_user)

\* the response is a ProjectWithTasks: joinedload(Project.tasks)
get_project(current_user, project_id) ==
    IF ~ProjectExists(project_id)
    THEN Refuse("get_project", current_user, project_id, HTTP_404_NOT_FOUND)
    ELSE IF get_project_forbidden(current_user, project_id)
    THEN Refuse("get_project", current_user, project_id, HTTP_403_FORBIDDEN)
    ELSE /\ Reply("get_project", current_user, project_id, HTTP_200_OK,
                  ProjectBody({project_id}, ProjectTasks(project_id)))
         /\ UNCHANGED db

\* project is a ProjectCreate: name, description, team_id
create_project(current_user, project) ==
    IF ~validate_name_ok(project.name)
    THEN Refuse("create_project", current_user, NoneId, HTTP_422_UNPROCESSABLE_ENTITY)
    ELSE IF check_team_access(current_user, project.team_id) # HTTP_200_OK
    THEN Refuse("create_project", current_user, NoneId,
                check_team_access(current_user, project.team_id))
    ELSE LET id == NewId(DOMAIN projects)
             db_project == [name        |-> validate_name(project.name),
                            description |-> validate_description(project.description),
                            creator_id  |-> current_user,
                            team_id     |-> project.team_id]
         IN /\ id <= MaxProjects
            /\ projects' = [p \in (DOMAIN projects) \cup {id} |->
                               IF p = id THEN db_project ELSE projects[p]]
            /\ Reply("create_project", current_user, id, HTTP_200_OK,
                     ProjectBody({id}, {}))
            /\ UNCHANGED <<users, teams, members, tasks>>

\* mutant: what the docstring says, "Only the project creator or an admin"
update_project_forbidden_CreatorOnly(current_user, project_id) ==
    /\ ~IsAdmin(current_user)
    /\ projects[project_id].creator_id # current_user

\* "Admin can update any; otherwise user must be a member of the project's team"
update_project_forbidden(current_user, project_id) ==
    /\ ~IsAdmin(current_user)
    /\ ~HasMembership(projects[project_id].team_id, current_user)

\* the row after  "Update project fields if provided"
update_project_row(project, project_update) ==
    [name        |-> IF project_update.name # NoneText
                     THEN project_update.name ELSE project.name,
     description |-> IF project_update.description # NoneText
                     THEN project_update.description ELSE project.description,
     creator_id  |-> project.creator_id,
     team_id     |-> IF project_update.team_id # NoneId
                     THEN project_update.team_id ELSE project.team_id]

\* mutant: the fields set before check_team_access raises are written
update_project_Autocommit(current_user, project_id, project_update) ==
    IF ~ProjectExists(project_id)
    THEN Refuse("update_project", current_user, project_id, HTTP_404_NOT_FOUND)
    ELSE IF update_project_forbidden(current_user, project_id)
    THEN Refuse("update_project", current_user, project_id, HTTP_403_FORBIDDEN)
    ELSE IF /\ project_update.team_id # NoneId
            /\ check_team_access(current_user, project_update.team_id) # HTTP_200_OK
    THEN /\ projects' = [projects EXCEPT
                            ![project_id] = update_project_row(@,
                                [project_update EXCEPT !.team_id = NoneId])]
         /\ Reply("update_project", current_user, project_id,
                  check_team_access(current_user, project_update.team_id), NoBody)
         /\ UNCHANGED <<users, teams, members, tasks>>
    ELSE /\ projects' = [projects EXCEPT
                            ![project_id] = update_project_row(@, project_update)]
         /\ Reply("update_project", current_user, project_id, HTTP_200_OK,
                  ProjectBody({project_id}, {}))
         /\ UNCHANGED <<users, teams, members, tasks>>

\* project_update is a ProjectUpdate: name, description, team_id.  A new
\* team_id that check_team_access refuses raises before db.commit(), so the
\* name and description already set on the object are not written.
update_project(current_user, project_id, project_update) ==
    IF ~ProjectExists(project_id)
    THEN Refuse("update_project", current_user, project_id, HTTP_404_NOT_FOUND)
    ELSE IF update_project_forbidden(current_user, project_id)
    THEN Refuse("update_project", current_user, project_id, HTTP_403_FORBIDDEN)
    ELSE IF /\ project_update.team_id # NoneId
            /\ check_team_access(current_user, project_update.team_id) # HTTP_200_OK
    THEN Refuse("update_project", current_user, project_id,
                check_team_access(current_user, project_update.team_id))
    ELSE /\ projects' = [projects EXCEPT
                            ![project_id] = update_project_row(@, project_update)]
         /\ Reply("update_project", current_user, project_id, HTTP_200_OK,
                  ProjectBody({project_id}, {}))
         /\ UNCHANGED <<users, teams, members, tasks>>

\* "Admin can delete any; otherwise user must be a member of the project's team"
delete_project_forbidden(current_user, project_id) ==
    /\ ~IsAdmin(current_user)
    /\ ~HasMembership(projects[project_id].team_id, current_user)

\* Project.tasks has cascade="all, delete-orphan"
delete_project(current_user, project_id) ==
    IF ~ProjectExists(project_id)
    THEN Refuse("delete_project", current_user, project_id, HTTP_404_NOT_FOUND)
    ELSE IF delete_project_forbidden(current_user, project_id)
    THEN Refuse("delete_project", current_user, project_id, HTTP_403_FORBIDDEN)
    ELSE /\ projects' = Without(projects, {project_id})
         /\ tasks' = Without(tasks, ProjectTasks(project_id))
         /\ Reply("delete_project", current_user, project_id, HTTP_200_OK, NoBody)
         /\ UNCHANGED <<users, teams, members>>

(***************************************************************************)
(* routers/teams.py                                                        *)
(***************************************************************************)

\* mutant: a team role of lead or admin counts as admin
check_admin_permission_TeamAdmin(current_user) ==
    /\ ~IsAdmin(current_user)
    /\ ~\E m \in members : m.user_id = current_user /\ m.role \in {"lead", "admin"}

\* check_admin_permission: whether it raises 403
check_admin_permission(current_user) == ~IsAdmin(current_user)

\* check_team_access_permission: whether it raises 403
check_team_access_permission(current_user, team_id) ==
    /\ ~IsAdmin(current_user)
    /\ ~HasMembership(team_id, current_user)

\* the member_ids of a TeamCreate that name an existing user, in order
RECURSIVE ExistingOf(_)
ExistingOf(member_ids) ==
    IF member_ids = <<>> THEN <<>>
    ELSE IF UserExists(Head(member_ids))
         THEN <<Head(member_ids)>> \o ExistingOf(Tail(member_ids))
         ELSE ExistingOf(Tail(member_ids))

HasDuplicate(seq) == \E i, j \in 1..Len(seq) : i < j /\ seq[i] = seq[j]

\* team is a TeamCreate: name, description, member_ids.  The team is committed
\* first.  The membership rows are added to the session one by one; the
\* session does not autoflush (database.py), so the "already a member" query
\* does not see the rows pending in it, and an id listed twice is added twice:
\* the second commit then fails on the primary key and the request ends 500
\* with the team stored and no membership row.
create_team(current_user, team) ==
    IF ~validate_name_ok(team.name)
    THEN Refuse("create_team", current_user, NoneId, HTTP_422_UNPROCESSABLE_ENTITY)
    ELSE IF check_admin_permission(current_user)
    THEN Refuse("create_team", current_user, NoneId, HTTP_403_FORBIDDEN)
    ELSE IF \E t \in DOMAIN teams : teams[t].name = validate_name(team.name)
    THEN Refuse("create_team", current_user, NoneId, HTTP_400_BAD_REQUEST)
    ELSE LET id == NewId(DOMAIN teams)
             db_team == [name        |-> validate_name(team.name),
                         description |-> validate_description(team.description)]
             pending == ExistingOf(team.member_ids)
         IN /\ id <= MaxTeams
            /\ teams' = [t \in (DOMAIN teams) \cup {id} |->
                            IF t = id THEN db_team ELSE teams[t]]
            /\ IF HasDuplicate(pending)
               THEN /\ members' = members
                    /\ Reply("create_team", current_user, id,
                             HTTP_500_INTERNAL_SERVER_ERROR, NoBody)
               ELSE /\ members' = members \cup
                          {[team_id |-> id, user_id |-> pending[i], role |-> "member"] :
                               i \in 1..Len(pending)}
                    /\ Reply("create_team", current_user, id, HTTP_201_CREATED, NoBody)
            /\ UNCHANGED <<users, projects, tasks>>

list_teams(current_user) ==
    /\ Reply("list_teams", current_user, NoneId, HTTP_200_OK, NoBody)
    /\ UNCHANGED db

get_team(current_user, team_id) ==
    IF ~TeamExists(team_id)
    THEN Refuse("get_team", current_user, team_id, HTTP_404_NOT_FOUND)
    ELSE IF check_team_access_permission(current_user, team_id)
    THEN Refuse("get_team", current_user, team_id, HTTP_403_FORBIDDEN)
    ELSE /\ Reply("get_team", current_user, team_id, HTTP_200_OK, NoBody)
         /\ UNCHANGED db

\* member_data is a TeamMemberAdd: user_id, role
add_team_member(current_user, team_id, member_data) ==
    IF check_admin_permission(current_user)
    THEN Refuse("add_team_member", current_user, team_id, HTTP_403_FORBIDDEN)
    ELSE IF ~TeamExists(team_id)
    THEN Refuse("add_team_member", current_user, team_id, HTTP_404_NOT_FOUND)
    ELSE IF ~UserExists(member_data.user_id)
    THEN Refuse("add_team_member", current_user, team_id, HTTP_404_NOT_FOUND)
    ELSE IF HasMembership(team_id, member_data.user_id)
    THEN Refuse("add_team_member", current_user, team_id, HTTP_400_BAD_REQUEST)
    ELSE /\ members' = members \cup {[team_id |-> team_id,
                                       user_id |-> member_data.user_id,
                                       role    |-> member_data.role]}
         /\ Reply("add_team_member", current_user, team_id, HTTP_201_CREATED, NoBody)
         /\ UNCHANGED <<users, teams, projects, tasks>>

list_team_members(current_user, team_id) ==
    IF ~TeamExists(team_id)
    THEN Refuse("list_team_members", current_user, team_id, HTTP_404_NOT_FOUND)
    ELSE IF check_team_access_permission(current_user, team_id)
    THEN Refuse("list_team_members", current_user, team_id, HTTP_403_FORBIDDEN)
    ELSE /\ Reply("list_team_members", current_user, team_id, HTTP_200_OK, NoBody)
         /\ UNCHANGED db

remove_team_member(current_user, team_id, user_id) ==
    IF check_admin_permission(current_user)
    THEN Refuse("remove_team_member", current_user, team_id, HTTP_403_FORBIDDEN)
    ELSE IF ~TeamExists(team_id)
    THEN Refuse("remove_team_member", current_user, team_id, HTTP_404_NOT_FOUND)
    ELSE IF ~UserExists(user_id)
    THEN Refuse("remove_team_member", current_user, team_id, HTTP_404_NOT_FOUND)
    ELSE IF ~HasMembership(team_id, user_id)
    THEN Refuse("remove_team_member", current_user, team_id, HTTP_404_NOT_FOUND)
    ELSE /\ \E team_member \in members :
               /\ team_member.team_id = team_id
               /\ team_member.user_id = user_id
               /\ members' = members \ {team_member}
         /\ Reply("remove_team_member", current_user, team_id, HTTP_200_OK, NoBody)
         /\ UNCHANGED <<users, teams, projects, tasks>>

\* mutant: only the team row and its memberships go
delete_team_OwnRowsOnly(current_user, team_id) ==
    IF check_admin_permission(current_user)
    THEN Refuse("delete_team", current_user, team_id, HTTP_403_FORBIDDEN)
    ELSE IF ~TeamExists(team_id)
    THEN Refuse("delete_team", current_user, team_id, HTTP_404_NOT_FOUND)
    ELSE /\ teams' = Without(teams, {team_id})
         /\ members' = {m \in members : m.team_id # team_id}
         /\ Reply("delete_team", current_user, team_id, HTTP_200_OK, NoBody)
         /\ UNCHANGED <<users, projects, tasks>>

\* Team.team_memberships and Team.projects have cascade="all, delete-orphan",
\* and so has Project.tasks
delete_team(current_user, team_id) ==
    IF check_admin_permission(current_user)
    THEN Refuse("delete_team", current_user, team_id, HTTP_403_FORBIDDEN)
    ELSE IF ~TeamExists(team_id)
    THEN Refuse("delete_team", current_user, team_id, HTTP_404_NOT_FOUND)
    ELSE /\ teams' = Without(teams, {team_id})
         /\ members' = {m \in members : m.team_id # team_id}
         /\ projects' = Without(projects, TeamProjects(team_id))
         /\ tasks' = Without(tasks, {t \in DOMAIN tasks :
                                        tasks[t].project_id \in TeamProjects(team_id)})
         /\ Reply("delete_team", current_user, team_id, HTTP_200_OK, NoBody)
         /\ UNCHANGED users

(***************************************************************************)
(* routers/auth.py                                                         *)
(***************************************************************************)
SECRET_KEY == "your-super-secret-jwt-key"

ACCESS_TOKEN_EXPIRE_MINUTES == 15

REFRESH_TOKEN_EXPIRE_DAYS == 7

\* timedelta(minutes=...) and timedelta(days=7) in seconds, the unit of "exp"
AccessTTL == ACCESS_TOKEN_EXPIRE_MINUTES * 60

RefreshTTL == REFRESH_TOKEN_EXPIRE_DAYS * 24 * 60 * 60

\* bytes of a password that bcrypt reads
BcryptMaxBytes == 72

\* pwd_context.hash / pwd_context.verify (bcrypt; the salt is left out): the
\* digest is made from the first 72 bytes of the password
get_password_hash(password) ==
    <<"bcrypt", SubSeq(password, 1, IF Len(password) < BcryptMaxBytes
                                    THEN Len(password) ELSE BcryptMaxBytes)>>

\* releases of the bcrypt package from 5.0 on raise ValueError for a longer
\* password instead, which no handler catches
hash_raises(password) == Len(password) > BcryptMaxBytes

\* mutant: any password verifies
verify_password_Any(plain_password, hashed_password) ==
    hashed_password[1] = "bcrypt"

verify_password(plain_password, hashed_password) ==
    hashed_password = get_password_hash(plain_password)

\* jwt.encode(to_encode, SECRET_KEY): the claims and the key that signed them;
\* a datetime "exp" is encoded as whole seconds
jwt_encode(claims, key) == claims @@ [key |-> key]

\* mutant: the expiry is not verified
jwt_decode_ok_NoExpiry(token) == token.key = SECRET_KEY

\* jwt.decode raises JWTError for a signature made with another key and for
\* exp < now (ExpiredSignatureError)
jwt_decode_ok(token) == token.key = SECRET_KEY /\ ~(token.exp < now)

\* mutant: the expiry is the lifetime, not the instant it ends
create_access_token_NoClock(data, expires_delta) ==
    jwt_encode(data @@ [exp |-> expires_delta, type |-> "access"], SECRET_KEY)

\* data is the token_data dict: user_id, email, role
create_access_token(data, expires_delta) ==
    jwt_encode(data @@ [exp |-> now + expires_delta, type |-> "access"], SECRET_KEY)

create_refresh_token(data) ==
    jwt_encode(data @@ [exp |-> now + RefreshTTL, type |-> "refresh"], SECRET_KEY)

\* mutant: the type claim is not compared
get_current_user_AnyType(token) ==
    IF ~jwt_decode_ok(token) THEN NoneId
    ELSE IF token.user_id = NoneId THEN NoneId
    ELSE IF ~UserExists(token.user_id) THEN NoneId
    ELSE token.user_id

\* get_current_user: the id of the user it returns, NoneId when it raises 401
get_current_user(token) ==
    IF ~jwt_decode_ok(token) THEN NoneId
    ELSE IF token.user_id = NoneId \/ token.type # "access" THEN NoneId
    ELSE IF ~UserExists(token.user_id) THEN NoneId
    ELSE token.user_id

\* a request that raises credentials_exception: the record of it keeps the
\* token that was presented
RefuseToken(op, target, token) ==
    /\ last' = Served(op, NoneId, target, HTTP_401_UNAUTHORIZED, NoBody)
                   @@ [token |-> token]
    /\ UNCHANGED <<db, now, issued, inflight>>

\* a protected route: Depends(get_current_user) raises 401 before the handler
\* runs, or hands it the user
Bearer(token, op, target, handled) ==
    IF get_current_user(token) = NoneId
    THEN RefuseToken(op, target, token)
    ELSE handled

\* the Token response: the pair the client gets
TokenBody(access_token, refresh_token) ==
    [tasks |-> {}, projects |-> {},
     access_token |-> access_token, refresh_token |-> refresh_token]

\* the token pairs clients hold: a client keeps the pair it is answered with
\* while fewer than MaxIssued pairs are held
Keep(access_token, refresh_token) ==
    LET pair == [access_token |-> access_token, refresh_token |-> refresh_token]
    IN IF Cardinality(issued \cup {pair}) <= MaxIssued
       THEN issued \cup {pair}
       ELSE issued

\* a request that presents no token
NoToken == [type |-> "none"]

\* "Create access and refresh tokens" of login, login_json, login_email and
\* refresh_token, for the user row read from the database; token is the one
\* the request presented
issue_tokens(op, user, token) ==
    LET token_data == [user_id |-> user,
                       email   |-> users[user].email,
                       role    |-> users[user].role]
        access_token == create_access_token(token_data, AccessTTL)
        refresh_token == create_refresh_token(token_data)
    IN /\ last' = Served(op, NoneId, user, HTTP_200_OK,
                         TokenBody(access_token, refresh_token))
                     @@ [token |-> token]
       /\ issued' = Keep(access_token, refresh_token)
       /\ UNCHANGED <<db, now, inflight>>

\* mutant: the lookup is by e-mail address only
by_email_or_username_EmailOnly(identifier) ==
    {u \in DOMAIN users : users[u].email = identifier}

\* the rows  or_(User.email == identifier, User.username == identifier)  keeps
by_email_or_username(identifier) ==
    {u \in DOMAIN users :
        users[u].email = identifier \/ users[u].username = identifier}

\* form_data is an OAuth2PasswordRequestForm: username, password
login(form_data) ==
    IF by_email_or_username(form_data.username) = {}
    THEN Refuse("login", NoneId, NoneId, HTTP_401_UNAUTHORIZED)
    ELSE \E user \in by_email_or_username(form_data.username) :
            IF ~verify_password(form_data.password, users[user].hashed_password)
            THEN Refuse("login", NoneId, NoneId, HTTP_401_UNAUTHORIZED)
            ELSE issue_tokens("login", user, NoToken)

\* user_credentials is a UserLogin: email, password
login_json(user_credentials) ==
    IF ~UserLogin_email_ok(user_credentials.email)
    THEN Refuse("login_json", NoneId, NoneId, HTTP_422_UNPROCESSABLE_ENTITY)
    ELSE LET email == UserLogin_email(user_credentials.email)
             found == {u \in DOMAIN users : users[u].email = email}
         IN IF found = {}
            THEN Refuse("login_json", NoneId, NoneId, HTTP_401_UNAUTHORIZED)
            ELSE \E user \in found :
                    IF ~verify_password(user_credentials.password,
                                        users[user].hashed_password)
                    THEN Refuse("login_json", NoneId, NoneId, HTTP_401_UNAUTHORIZED)
                    ELSE issue_tokens("login_json", user, NoToken)

\* user_credentials is a UserLoginFlexible: email_or_username, password
login_email(user_credentials) ==
    IF ~UserLoginFlexible_ok(user_credentials.email_or_username)
    THEN Refuse("login_email", NoneId, NoneId, HTTP_422_UNPROCESSABLE_ENTITY)
    ELSE LET identifier == UserLoginFlexible_value(user_credentials.email_or_username)
         IN IF by_email_or_username(identifier) = {}
            THEN Refuse("login_email", NoneId, NoneId, HTTP_401_UNAUTHORIZED)
            ELSE \E user \in by_email_or_username(identifier) :
                    IF ~verify_password(user_credentials.password,
                                        users[user].hashed_password)
                    THEN Refuse("login_email", NoneId, NoneId, HTTP_401_UNAUTHORIZED)
                    ELSE issue_tokens("login_email", user, NoToken)

\* "Delegate to the main flexible login endpoint"
login_username(user_credentials) == login_email(user_credentials)

\* mutant: the new tokens copy the claims of the presented one
refresh_token_FromClaims(request) ==
    IF ~jwt_decode_ok(request.refresh_token)
    THEN RefuseToken("refresh_token", NoneId, request.refresh_token)
    ELSE IF \/ request.refresh_token.user_id = NoneId
            \/ request.refresh_token.type # "refresh"
    THEN RefuseToken("refresh_token", NoneId, request.refresh_token)
    ELSE LET token_data == [user_id |-> request.refresh_token.user_id,
                            email   |-> request.refresh_token.email,
                            role    |-> request.refresh_token.role]
             access_token == create_access_token(token_data, AccessTTL)
             new_refresh_token == create_refresh_token(token_data)
         IN /\ last' = Served("refresh_token", NoneId, request.refresh_token.user_id,
                              HTTP_200_OK, TokenBody(access_token, new_refresh_token))
                          @@ [token |-> request.refresh_token]
            /\ issued' = Keep(access_token, new_refresh_token)
            /\ UNCHANGED <<db, now, inflight>>

\* request is a RefreshTokenRequest: refresh_token
refresh_token(request) ==
    IF ~jwt_decode_ok(request.refresh_token)
    THEN RefuseToken("refresh_token", NoneId, request.refresh_token)
    ELSE IF \/ request.refresh_token.user_id = NoneId
            \/ request.refresh_token.type # "refresh"
    THEN RefuseToken("refresh_token", NoneId, request.refresh_token)
    ELSE IF ~UserExists(request.refresh_token.user_id)
    THEN RefuseToken("refresh_token", NoneId, request.refresh_token)
    ELSE issue_tokens("refresh_token", request.refresh_token.user_id,
                      request.refresh_token)

\* GET /auth/me: a protected route that needs nothing but the bearer token
get_current_user_info(current_user) ==
    /\ Reply("get_current_user_info", current_user, current_user, HTTP_200_OK, NoBody)
    /\ UNCHANGED db

\* mutant: the username is not looked up
signup_EmailOnly(user) ==
    IF ~(/\ UserBase_email_ok(user.email)
         /\ UserBase_username_ok(user.username)
         /\ validate_password_ok(user.password)
         /\ user.role \in UserRole)
    THEN Refuse("signup", NoneId, NoneId, HTTP_422_UNPROCESSABLE_ENTITY)
    ELSE IF \E u \in DOMAIN users : users[u].email = UserBase_email(user.email)
    THEN Refuse("signup", NoneId, NoneId, HTTP_400_BAD_REQUEST)
    ELSE LET id == NewId(DOMAIN users)
             db_user == [role            |-> user.role,
                         email           |-> UserBase_email(user.email),
                         username        |-> UserBase_username(user.username),
                         hashed_password |-> get_password_hash(user.password)]
         IN \/ /\ id <= MaxUsers
               /\ users' = [u \in (DOMAIN users) \cup {id} |->
                               IF u = id THEN db_user ELSE users[u]]
               /\ Reply("signup", NoneId, id, HTTP_200_OK, NoBody)
               /\ UNCHANGED <<teams, members, projects, tasks>>
            \/ /\ hash_raises(user.password)
               /\ Refuse("signup", NoneId, NoneId, HTTP_500_INTERNAL_SERVER_ERROR)

\* user is a UserCreate: email, username, password, role (member when the
\* request leaves it out)
signup(user) ==
    IF ~(/\ UserBase_email_ok(user.email)
         /\ UserBase_username_ok(user.username)
         /\ validate_password_ok(user.password)
         /\ user.role \in UserRole)
    THEN Refuse("signup", NoneId, NoneId, HTTP_422_UNPROCESSABLE_ENTITY)
    ELSE IF \E u \in DOMAIN users : users[u].email = UserBase_email(user.email)
    THEN Refuse("signup", NoneId, NoneId, HTTP_400_BAD_REQUEST)
    ELSE IF \E u \in DOMAIN users : users[u].username = UserBase_username(user.username)
    THEN Refuse("signup", NoneId, NoneId, HTTP_400_BAD_REQUEST)
    ELSE LET id == NewId(DOMAIN users)
             db_user == [role            |-> user.role,
                         email           |-> UserBase_email(user.email),
                         username        |-> UserBase_username(user.username),
                         hashed_password |-> get_password_hash(user.password)]
         IN \/ /\ id <= MaxUsers
               /\ users' = [u \in (DOMAIN users) \cup {id} |->
                               IF u = id THEN db_user ELSE users[u]]
               /\ Reply("signup", NoneId, id, HTTP_200_OK, NoBody)
               /\ UNCHANGED <<teams, members, projects, tasks>>
            \/ /\ hash_raises(user.password)
               /\ Refuse("signup", NoneId, NoneId, HTTP_500_INTERNAL_SERVER_ERROR)

\* request is a PasswordChange: current_password, new_password
change_password(current_user, request) ==
    IF ~validate_password_ok(request.new_password)
    THEN Refuse("change_password", current_user, current_user,
                HTTP_422_UNPROCESSABLE_ENTITY)
    ELSE IF ~verify_password(request.current_password,
                             users[current_user].hashed_password)
    THEN Refuse("change_password", current_user, current_user, HTTP_400_BAD_REQUEST)
    ELSE \/ /\ users' = [users EXCEPT ![current_user].hashed_password =
                                         get_password_hash(request.new_password)]
            /\ Reply("change_password", current_user, current_user, HTTP_200_OK, NoBody)
            /\ UNCHANGED <<teams, members, projects, tasks>>
         \/ /\ hash_raises(request.new_password)
            /\ Refuse("change_password", current_user, current_user,
                      HTTP_500_INTERNAL_SERVER_ERROR)

\* mutant: logout closes the newest account
logout_Revoking ==
    /\ users' = Without(users, {MaxOf(DOMAIN users)})
    /\ Reply("logout", NoneId, NoneId, HTTP_200_OK, NoBody)
    /\ UNCHANGED <<teams, members, projects, tasks>>

\* POST /auth/logout: no dependency, no database session, a fixed message
logout ==
    /\ Reply("logout", NoneId, NoneId, HTTP_200_OK, NoBody)
    /\ UNCHANGED db

(***************************************************************************)
(* routers/users.py                                                        *)
(***************************************************************************)
\* mutant: no bypass for the global admin
get_user_by_id_SelfOnly(current_user, user_id) ==
    IF current_user # user_id
    THEN Refuse("get_user_by_id", current_user, user_id, HTTP_403_FORBIDDEN)
    ELSE /\ Reply("get_user_by_id", current_user, user_id, HTTP_200_OK, NoBody)
         /\ UNCHANGED db

\* "Users can only view their own profile unless they're admin"
get_user_by_id(current_user, user_id) ==
    IF current_user # user_id /\ ~IsAdmin(current_user)
    THEN Refuse("get_user_by_id", current_user, user_id, HTTP_403_FORBIDDEN)
    ELSE IF ~UserExists(user_id)
    THEN Refuse("get_user_by_id", current_user, user_id, HTTP_404_NOT_FOUND)
    ELSE /\ Reply("get_user_by_id", current_user, user_id, HTTP_200_OK, NoBody)
         /\ UNCHANGED db

(***************************************************************************)
(* create_admin.py --promote: the operator's command line, not a request.  *)
(***************************************************************************)
promote_user_to_admin(email) ==
    /\ \E user \in DOMAIN users :
          /\ users[user].email = email
          /\ users[user].role # "admin"
          /\ users' = [users EXCEPT ![user].role = "admin"]
    /\ UNCHANGED <<teams, members, projects, tasks, last, now, issued, inflight>>

(***************************************************************************)
(* The database after startup (init_default_team.py: the admin account,    *)
(* "Default Team", the admin's membership in it with team role admin) and  *)
(* after two members have signed up.                                       *)
(***************************************************************************)
AdminUser == 1

AdminEmail == <<"a", "@", "t", ".", "c", "o">>

AdminName == <<"a", "d", "m">>

AdminPassword == <<"a", "d", "m", "i", "n", "1", "2", "3">>

BobEmail == <<"b", "@", "t", ".", "c", "o">>

BobName == <<"B", "o", "b">>

BobPassword == <<"P", "a", "s", "s", "w", "0", "r", "d">>

EveEmail == <<"e", "@", "t", ".", "c", "o">>

EveName == <<"e", "v", "e">>

SeedUsers ==
    (1 :> [role |-> "admin", email |-> AdminEmail, username |-> AdminName,
           hashed_password |-> get_password_hash(AdminPassword)])
    @@ (2 :> [role |-> "member", email |-> BobEmail, username |-> BobName,
              hashed_password |-> get_password_hash(BobPassword)])
    @@ (3 :> [role |-> "member", email |-> EveEmail, username |-> EveName,
              hashed_password |-> get_password_hash(BobPassword)])

DefaultTeamName == <<"D", "e", "f">>

OtherTeamName == <<"B">>

SeedTeams == (1 :> [name |-> DefaultTeamName, description |-> NoneText])

SeedMembers == {[team_id |-> 1, user_id |-> AdminUser, role |-> "admin"]}

Idle == Served("startup", NoneId, NoneId, HTTP_200_OK, NoBody)

Init ==
    /\ users = SeedUsers
    /\ teams = SeedTeams
    /\ members = SeedMembers
    /\ projects = <<>>
    /\ tasks = <<>>
    /\ last = Idle
    /\ now = 0
    /\ issued = {}
    /\ inflight = << >>

(***************************************************************************)
(* Request inputs.                                                         *)
(***************************************************************************)
Callers == DOMAIN users

\* ids a request may name: every id a table can hold, and one it cannot
UserIdInputs == 1..(Cardinality(DOMAIN SeedUsers) + 1)

TeamIdInputs == 1..(MaxTeams + 1)

ProjectIdInputs == 1..(MaxProjects + 1)

TaskIdInputs == 1..(MaxTasks + 1)

TitleA == <<"A">>

TitleB == <<" ", "b">>

DescrA == <<"a", "B">>

(***************************************************************************)
(* Task requests.  The database holds the default team and one project of  *)
(* it; user 2 joins and leaves the team, user 3 never belongs to it.       *)
(***************************************************************************)
BoardProject ==
    [name |-> TitleA, description |-> NoneText, creator_id |-> AdminUser, team_id |-> 1]

InitTasks ==
    /\ users = SeedUsers
    /\ teams = SeedTeams
    /\ members = SeedMembers
    /\ projects = (1 :> BoardProject)
    /\ tasks = <<>>
    /\ last = Idle
    /\ now = 0
    /\ issued = {}
    /\ inflight = << >>

TaskCreateInputs ==
    [title : {TitleA}, description : {NoneText}, status : {"todo"},
     project_id : {1, 2}, assignee_id : {NoneId} \cup UserIdInputs]

TaskUpdateInputs ==
    {[title |-> TitleB, description |-> DescrA, status |-> "done",
      assignee_id |-> NoneId]}
    \cup [title : {NoneText}, description : {NoneText}, status : {NoneEnum},
          assignee_id : {NoneId} \cup UserIdInputs]

TaskStatusInputs ==
    [title : {NoneText}, description : {NoneText},
     status : {NoneEnum, "in_progress"}, assignee_id : {NoneId}]

NextTasks ==
    \/ \E u \in Callers, p \in {NoneId, 1, 2}, s \in {NoneEnum, "done"},
          a \in BOOLEAN :
          get_all_tasks(u, p, s, a)
    \/ \E u \in Callers, t \in TaskIdInputs : get_task(u, t)
    \/ \E u \in Callers, task \in TaskCreateInputs : create_task(u, task)
    \/ \E u \in Callers, t \in TaskIdInputs, upd \in TaskUpdateInputs :
          update_task(u, t, upd)
    \/ \E u \in Callers, t \in TaskIdInputs, upd \in TaskStatusInputs :
          update_task_status(u, t, upd)
    \/ \E u \in Callers, t \in TaskIdInputs : delete_task(u, t)
    \/ \E u \in Callers, t \in TaskIdInputs, a \in UserIdInputs : assign_task(u, t, a)
    \/ \E u \in Callers, t \in TaskIdInputs : unassign_task(u, t)
    \/ \E u \in Callers, p \in {1, 2} : get_project(u, p)
    \/ \E u \in Callers, r \in TeamMemberRole :
          add_team_member(u, 1, [user_id |-> 2, role |-> r])
    \/ \E u \in Callers : remove_team_member(u, 1, 2)

SpecTasks == InitTasks /\ [][NextTasks]_vars

(***************************************************************************)
(* Claims on task requests (SpecTasks).                                    *)
(***************************************************************************)
TaskTeam(task_id) == projects[tasks[task_id].project_id].team_id

AssignedTo(u) == {t \in DOMAIN tasks : tasks[t].assignee_id = u}

\* C2: a request of a non-admin changes a stored field (title, description,
\* status, assignee) of an existing task only if the caller is that task's
\* assignee when the request is made.
C2_NonAdminChangesOnlyOwnTask ==
    [][\A t \in (DOMAIN tasks) \cap (DOMAIN tasks') :
          (tasks'[t] # tasks[t] /\ ~IsAdmin(last'.caller))
              => tasks[t].assignee_id = last'.caller]_vars

\* a JSON body of PUT /tasks/{task_id} that carries the key assigneeId (with
\* null or an id) or leaves it out, and the TaskUpdate pydantic makes of it:
\* a key left out gets the default None
TaskUpdate_parse(body) ==
    [title |-> NoneText, description |-> NoneText, status |-> NoneEnum,
     assignee_id |-> IF body.has_assigneeId THEN body.assigneeId ELSE NoneId]

TaskUpdateBodies == [has_assigneeId : BOOLEAN, assigneeId : {NoneId, 2}]

\* C26: an update_task answered 200 whose body carries assigneeId null
\* leaves the task unassigned, and one whose body leaves assigneeId out
\* leaves the stored assignee as it was.
C26_NullUnassigns ==
    [][(last'.op = "update_task" /\ last'.code = HTTP_200_OK /\ last' # last)
          => \A body \in TaskUpdateBodies :
                update_task(last'.caller, last'.target, TaskUpdate_parse(body))
                   => /\ (body.has_assigneeId /\ body.assigneeId = NoneId)
                            => tasks'[last'.target].assignee_id = NoneId
                      /\ ~body.has_assigneeId
                            => tasks'[last'.target].assignee_id
                               = tasks[last'.target].assignee_id]_vars

\* C3: a response of get_task, get_all_tasks or get_project to a non-admin
\* carries no task other than tasks assigned to the caller.
C3_ReadsCarryOnlyOwnTasks ==
    (/\ last.op \in {"get_task", "get_all_tasks", "get_project"}
     /\ ~IsAdmin(last.caller))
        => \A t \in last.resp.tasks : tasks[t].assignee_id = last.caller

C6_CreateTaskNeedsMembership ==
    [][\A u \in Callers, task \in TaskCreateInputs :
          (/\ create_task(u, task)
           /\ ~IsAdmin(u)
           /\ ProjectExists(task.project_id))
          => IF ~HasMembership(projects[task.project_id].team_id, u)
             THEN last'.code = HTTP_403_FORBIDDEN /\ tasks' = tasks
             ELSE (task.assignee_id = NoneId \/ UserExists(task.assignee_id))
                  => /\ last'.code = HTTP_200_OK
                     /\ \E id \in (DOMAIN tasks') \ (DOMAIN tasks) :
                           /\ DOMAIN tasks' = (DOMAIN tasks) \cup {id}
                           /\ tasks'[id].project_id = task.project_id
                     /\ \A t \in DOMAIN tasks : tasks'[t] = tasks[t]]_vars

C6_Witness ==
    /\ last.op = "create_task"
    /\ last.code = HTTP_200_OK
    /\ ~IsAdmin(last.caller)
    /\ TaskExists(last.target)
    /\ \E m \in members :
          /\ m.team_id = TaskTeam(last.target)
          /\ m.user_id = last.caller
          /\ m.role = "lead"

\* C7 as stated: update_task and update_task_status of a non-admin who has
\* no membership row for the team of the task's project never succeed.
C7_UpdateNeedsMembership ==
    (/\ last.op \in {"update_task", "update_task_status"}
     /\ TaskExists(last.target)
     /\ ~IsAdmin(last.caller)
     /\ ~HasMembership(TaskTeam(last.target), last.caller))
        => last.code # HTTP_200_OK

\* C7 amended: update_task and update_task_status of a non-admin on an
\* existing task answer 403 exactly when the caller is not the task's
\* assignee, with or without a membership row for the team of the project.
C7_UpdateNeedsAssignee ==
    [][(/\ last'.op \in {"update_task", "update_task_status"}
        /\ TaskExists(last'.target)
        /\ ~IsAdmin(last'.caller))
          => (last'.code = HTTP_403_FORBIDDEN
                 <=> tasks[last'.target].assignee_id # last'.caller)]_vars

C7_Witness ==
    /\ last.op = "update_task"
    /\ last.code = HTTP_200_OK
    /\ TaskExists(last.target)
    /\ ~IsAdmin(last.caller)
    /\ ~HasMembership(TaskTeam(last.target), last.caller)
    /\ tasks[last.target].title = TitleB

\* C8: delete_task of a non-admin answers 403 and leaves every task stored,
\* whatever the caller's team role and also for the task's assignee; a task
\* leaves the table by delete_task only when the caller is an admin.
C8_DeleteTaskAdminOnly ==
    [][last'.op = "delete_task"
          => /\ ~IsAdmin(last'.caller)
                    => (last'.code = HTTP_403_FORBIDDEN /\ tasks' = tasks)
             /\ (DOMAIN tasks' # DOMAIN tasks) => IsAdmin(last'.caller)]_vars

C8_Witness ==
    /\ last.op = "delete_task"
    /\ last.code = HTTP_403_FORBIDDEN
    /\ TaskExists(last.target)
    /\ tasks[last.target].assignee_id = last.caller
    /\ \E m \in members :
          /\ m.team_id = TaskTeam(last.target)
          /\ m.user_id = last.caller
          /\ m.role \in {"lead", "admin"}

(***************************************************************************)
(* Project requests.  The database holds two teams; user 2 joins and       *)
(* leaves either, user 3 belongs to none.                                  *)
(***************************************************************************)
TwoTeams == SeedTeams @@ (2 :> [name |-> OtherTeamName, description |-> NoneText])

InitProjects ==
    /\ users = SeedUsers
    /\ teams = TwoTeams
    /\ members = SeedMembers
    /\ projects = <<>>
    /\ tasks = <<>>
    /\ last = Idle
    /\ now = 0
    /\ issued = {}
    /\ inflight = << >>

ProjectCreateInputs ==
    [name : {TitleA}, description : {NoneText}, team_id : TeamIdInputs]

ProjectUpdateInputs ==
    {[name |-> TitleB, description |-> DescrA, team_id |-> NoneId]}
    \cup [name : {NoneText}, description : {NoneText},
          team_id : {NoneId} \cup TeamIdInputs]

NextProjects ==
    \/ \E u \in Callers, t \in {NoneId, 1, 2}, s \in {NoneText, <<" ", "b">>} :
          get_all_projects(u, t, s)
    \/ \E u \in Callers, p \in ProjectIdInputs : get_project(u, p)
    \/ \E u \in Callers, project \in ProjectCreateInputs : create_project(u, project)
    \/ \E u \in Callers, p \in ProjectIdInputs, upd \in ProjectUpdateInputs :
          update_project(u, p, upd)
    \/ \E u \in Callers, p \in ProjectIdInputs : delete_project(u, p)
    \/ \E u \in Callers, t \in {1, 2}, r \in TeamMemberRole :
          add_team_member(u, t, [user_id |-> 2, role |-> r])
    \/ \E u \in Callers, t \in {1, 2} : remove_team_member(u, t, 2)

SpecProjects == InitProjects /\ [][NextProjects]_vars

(***************************************************************************)
(* Claims on project requests (SpecProjects).                              *)
(***************************************************************************)

\* C5: create_project of a non-admin for an existing team answers 200 exactly
\* when a membership row (of any team role) exists for (team, caller); it then
\* adds exactly one project, of the requested team and created by the caller;
\* otherwise it answers 403 and adds no project.
C5_CreateProjectNeedsMembership ==
    [][\A u \in Callers, project \in ProjectCreateInputs :
          (/\ create_project(u, project)
           /\ ~IsAdmin(u)
           /\ TeamExists(project.team_id))
          => IF HasMembership(project.team_id, u)
             THEN /\ last'.code = HTTP_200_OK
                  /\ \E id \in (DOMAIN projects') \ (DOMAIN projects) :
                        /\ DOMAIN projects' = (DOMAIN projects) \cup {id}
                        /\ projects'[id].team_id = project.team_id
                        /\ projects'[id].creator_id = u
                  /\ \A p \in DOMAIN projects : projects'[p] = projects[p]
             ELSE /\ last'.code = HTTP_403_FORBIDDEN
                  /\ projects' = projects]_vars

C5_Witness ==
    /\ last.op = "create_project"
    /\ last.code = HTTP_200_OK
    /\ ~IsAdmin(last.caller)
    /\ ProjectExists(last.target)
    /\ projects[last.target].team_id = 2
    /\ projects[last.target].creator_id = last.caller
    /\ ~HasMembership(1, last.caller)
    /\ \E m \in members : m.team_id = 2 /\ m.user_id = last.caller /\ m.role = "lead"

C11_OnlyCreatorOrAdmin ==
    [][\A p \in DOMAIN projects :
          (/\ last'.op \in {"update_project", "delete_project"}
           /\ last'.target = p
           /\ ~IsAdmin(last'.caller)
           /\ projects[p].creator_id # last'.caller)
          => /\ last'.code = HTTP_403_FORBIDDEN
             /\ projects' = projects]_vars

\* C12: get_all_projects answers a non-admin, whatever the team_id and search
\* filters, with projects of teams that have a membership row for the caller
\* only, and with 403 and no project when team_id names an existing team
\* without such a row; get_project of a non-admin on a project of a team
\* without such a row is answered 403 with no project.
C12_ProjectsOfOwnTeamsOnly ==
    [][\A u \in Callers :
          ~IsAdmin(u) =>
             /\ \A t \in {NoneId} \cup TeamIdInputs, s \in {NoneText, <<" ", "b">>} :
                   get_all_projects(u, t, s)
                   => /\ \A p \in last'.resp.projects :
                            HasMembership(projects[p].team_id, u)
                      /\ (t # NoneId /\ TeamExists(t) /\ ~HasMembership(t, u))
                            => (last'.code = HTTP_403_FORBIDDEN /\ last'.resp = NoBody)
             /\ \A p \in DOMAIN projects :
                   (get_project(u, p) /\ ~HasMembership(projects[p].team_id, u))
                   => (last'.code = HTTP_403_FORBIDDEN /\ last'.resp = NoBody)]_vars

C12_Witness ==
    /\ last.op = "get_all_projects"
    /\ last.code = HTTP_200_OK
    /\ ~IsAdmin(last.caller)
    /\ projects # << >>
    /\ last.resp.projects = {}
    /\ \A p \in DOMAIN projects : ~HasMembership(projects[p].team_id, last.caller)
    /\ \E m \in members : m.user_id = last.caller


(***************************************************************************)
(* Every request of the three routers, from the database after startup.    *)
(***************************************************************************)
TeamCreateInputs ==
    [name : {OtherTeamName}, description : {NoneText},
     member_ids : {<< >>, <<2, 4>>, <<2, 2>>}]

Next ==
    \/ \E u \in Callers : get_all_tasks(u, NoneId, NoneEnum, FALSE)
    \/ \E u \in Callers, t \in TaskIdInputs : get_task(u, t)
    \/ \E u \in Callers, a \in {NoneId, 2} :
          create_task(u, [title |-> TitleA, description |-> NoneText,
                          status |-> "todo", project_id |-> 1, assignee_id |-> a])
    \/ \E u \in Callers, t \in TaskIdInputs :
          update_task(u, t, [title |-> TitleB, description |-> DescrA,
                             status |-> "done", assignee_id |-> NoneId])
    \/ \E u \in Callers, t \in TaskIdInputs :
          update_task_status(u, t, [title |-> NoneText, description |-> NoneText,
                                    status |-> "in_progress", assignee_id |-> NoneId])
    \/ \E u \in Callers, t \in TaskIdInputs : delete_task(u, t)
    \/ \E u \in Callers, t \in TaskIdInputs : assign_task(u, t, 2)
    \/ \E u \in Callers, t \in TaskIdInputs : unassign_task(u, t)
    \/ \E u \in Callers : get_all_projects(u, NoneId, NoneText)
    \/ \E u \in Callers, p \in ProjectIdInputs : get_project(u, p)
    \/ \E u \in Callers, t \in {1, 2} :
          create_project(u, [name |-> TitleA, description |-> NoneText, team_id |-> t])
    \/ \E u \in Callers, p \in ProjectIdInputs :
          update_project(u, p, [name |-> NoneText, description |-> NoneText,
                                team_id |-> 2])
    \/ \E u \in Callers, p \in ProjectIdInputs : delete_project(u, p)
    \/ \E u \in Callers, team \in TeamCreateInputs : create_team(u, team)
    \/ \E u \in Callers : list_teams(u)
    \/ \E u \in Callers, t \in TeamIdInputs : get_team(u, t)
    \/ \E u \in Callers, t \in {1, 2}, r \in {"lead", "admin"} :
          add_team_member(u, t, [user_id |-> 2, role |-> r])
    \/ \E u \in Callers, t \in TeamIdInputs : list_team_members(u, t)
    \/ \E u \in Callers, t \in {1, 2} : remove_team_member(u, t, 2)
    \/ \E u \in Callers, t \in TeamIdInputs : delete_team(u, t)

Spec == Init /\ [][Next]_vars

(***************************************************************************)
(* Claims on all requests (Spec).                                          *)
(***************************************************************************)

\* C1: a request of a caller whose global role is admin is never answered 403,
\* whatever membership rows and assignees exist; and the admin's requests that
\* need nothing but permission (to view or delete an existing team, project or
\* task, to list a team's members, to unassign a task) are answered 200.
C1_AdminIsAllowed ==
    [][(last'.caller \in DOMAIN users /\ IsAdmin(last'.caller))
          => /\ last'.code # HTTP_403_FORBIDDEN
             /\ (last'.op \in {"get_task", "delete_task", "unassign_task"}
                   /\ TaskExists(last'.target)) => last'.code = HTTP_200_OK
             /\ (last'.op \in {"get_project", "delete_project"}
                   /\ ProjectExists(last'.target)) => last'.code = HTTP_200_OK
             /\ (last'.op \in {"get_team", "list_team_members", "delete_team"}
                   /\ TeamExists(last'.target)) => last'.code = HTTP_200_OK]_vars

C1_Witness ==
    /\ last.op = "update_task"
    /\ last.code = HTTP_200_OK
    /\ IsAdmin(last.caller)
    /\ TaskExists(last.target)
    /\ tasks[last.target].assignee_id # last.caller
    /\ tasks[last.target].title = TitleB
    /\ ~HasMembership(TaskTeam(last.target), last.caller)

\* C9: a request changes the teams or the membership rows only if its caller's
\* global role is admin and it is create_team, delete_team, add_team_member or
\* remove_team_member; each of these four, sent by a non-admin, is answered 403
\* and changes nothing in the database, whatever team role the caller holds.
C9_TeamsChangeOnlyByAdmin ==
    [][/\ (teams' # teams \/ members' # members)
             => /\ IsAdmin(last'.caller)
                /\ last'.op \in {"create_team", "delete_team",
                                 "add_team_member", "remove_team_member"}
       /\ (/\ last'.op \in {"create_team", "delete_team",
                            "add_team_member", "remove_team_member"}
           /\ ~IsAdmin(last'.caller))
             => /\ last'.code = HTTP_403_FORBIDDEN
                /\ UNCHANGED db]_vars

C9_Witness ==
    /\ last.op \in {"delete_team", "add_team_member", "remove_team_member"}
    /\ last.code = HTTP_403_FORBIDDEN
    /\ ~IsAdmin(last.caller)
    /\ \E m \in members :
          /\ m.team_id = last.target
          /\ m.user_id = last.caller
          /\ m.role \in {"lead", "admin"}

(***************************************************************************)
(* Sessions.  The clock reads one of a few instants around the two expiry  *)
(* times.  One token pair was issued, at instant 0, to a user 4 of a       *)
(* database that has since been re-created: the key is the same, the user  *)
(* row is gone.                                                            *)
(***************************************************************************)
ClockInputs == {0, AccessTTL, AccessTTL + 1, RefreshTTL, RefreshTTL + 1}

GoneEmail == <<"x", "@", "t", ".", "c", "o">>

GoneUser == [user_id |-> 4, email |-> GoneEmail, role |-> "admin"]

GonePair ==
    [access_token  |-> jwt_encode(GoneUser @@ [exp |-> AccessTTL, type |-> "access"],
                                  SECRET_KEY),
     refresh_token |-> jwt_encode(GoneUser @@ [exp |-> RefreshTTL, type |-> "refresh"],
                                  SECRET_KEY)]

InitAuth ==
    /\ users = SeedUsers
    /\ teams = SeedTeams
    /\ members = SeedMembers
    /\ projects = << >>
    /\ tasks = << >>
    /\ last = Idle
    /\ now = 0
    /\ issued = {GonePair}
    /\ inflight = << >>

\* time passes
Advance ==
    /\ \E t \in ClockInputs : t > now /\ now' = t
    /\ UNCHANGED <<db, last, issued, inflight>>

\* the tokens a request can carry: one a client holds, or one of these signed
\* again with a key that is not the server's
HeldTokens ==
    {pair.access_token : pair \in issued} \cup {pair.refresh_token : pair \in issued}

TokenInputs ==
    HeldTokens \cup {[token EXCEPT !.key = "guess"] : token \in HeldTokens}

IdentifierInputs ==
    {AdminEmail, AdminName, BobEmail, BobName, EveEmail, EveName,
     <<"B", "@", "t", ".", "c", "o">>, <<"b", "o", "b">>, GoneEmail}

PasswordInputs == {AdminPassword, BobPassword, <<"l", "e", "t", "m", "e", "i", "n">>}

NextAuth ==
    \/ Advance
    \/ \E i \in IdentifierInputs, pw \in PasswordInputs :
          login([username |-> i, password |-> pw])
    \/ \E i \in IdentifierInputs, pw \in PasswordInputs :
          login_json([email |-> i, password |-> pw])
    \/ \E i \in IdentifierInputs, pw \in PasswordInputs :
          login_email([email_or_username |-> i, password |-> pw])
    \/ \E i \in IdentifierInputs, pw \in PasswordInputs :
          login_username([email_or_username |-> i, password |-> pw])
    \/ \E token \in TokenInputs : refresh_token([refresh_token |-> token])
    \/ \E token \in TokenInputs :
          Bearer(token, "get_current_user_info", NoneId, get_current_user_info(get_current_user(token)))
    \/ \E token \in TokenInputs, id \in UserIdInputs :
          Bearer(token, "get_user_by_id", id, get_user_by_id(get_current_user(token), id))
    \/ \E email \in {BobEmail} : promote_user_to_admin(email)

SpecAuth == InitAuth /\ [][NextAuth]_vars

(***************************************************************************)
(* Claims on sessions (SpecAuth).                                          *)
(***************************************************************************)

\* C13: a protected route answers a bearer token of type refresh with 401, and
\* refresh answers a token of type access with 401; either way the response
\* carries no token, and the database and the tokens held stay as they are.
C13_TokenTypeMustMatchUse ==
    [][\A token \in TokenInputs :
          /\ (/\ token.type = "refresh"
              /\ \/ Bearer(token, "get_current_user_info", NoneId, get_current_user_info(get_current_user(token)))
                 \/ \E id \in UserIdInputs :
                       Bearer(token, "get_user_by_id", id,
                              get_user_by_id(get_current_user(token), id)))
                => /\ last'.code = HTTP_401_UNAUTHORIZED
                   /\ last'.resp = NoBody
                   /\ UNCHANGED <<db, issued>>
          /\ (/\ token.type = "access"
              /\ refresh_token([refresh_token |-> token]))
                => /\ last'.code = HTTP_401_UNAUTHORIZED
                   /\ last'.resp = NoBody
                   /\ UNCHANGED <<db, issued>>]_vars

\* a token the server signed, not expired, of a user that exists
Usable(token) ==
    /\ token.key = SECRET_KEY
    /\ token.exp >= now
    /\ UserExists(token.user_id)

C13_Witness ==
    /\ last.op = "get_current_user_info"
    /\ last.code = HTTP_401_UNAUTHORIZED
    /\ last.token.type = "refresh"
    /\ Usable(last.token)
    /\ last.token \in HeldTokens
\* C14: the access token of a Token response expires 15 minutes, and its
\* refresh token 7 days, after the response; a protected route answers an
\* access token the server signed with 401 at every instant after its expiry,
\* and not with 401 up to its expiry while its user exists; refresh answers a
\* refresh token the server signed with 401 at every instant after its expiry,
\* and with 200 up to its expiry while its user exists.
C14_TokensExpire ==
    [][/\ (/\ last' # last
           /\ last'.op \in {"login", "login_json", "login_email", "refresh_token"}
           /\ last'.code = HTTP_200_OK)
             => /\ last'.resp.access_token.exp = now + 15 * 60
                /\ last'.resp.refresh_token.exp = now + 7 * 24 * 60 * 60
       /\ \A token \in HeldTokens :
             /\ (/\ token.type = "access"
                 /\ \/ Bearer(token, "get_current_user_info", NoneId,
                              get_current_user_info(get_current_user(token)))
                    \/ \E id \in UserIdInputs :
                          Bearer(token, "get_user_by_id", id,
                                 get_user_by_id(get_current_user(token), id)))
                   => /\ now > token.exp => last'.code = HTTP_401_UNAUTHORIZED
                      /\ (now <= token.exp /\ UserExists(token.user_id))
                            => last'.code # HTTP_401_UNAUTHORIZED
             /\ (/\ token.type = "refresh"
                 /\ refresh_token([refresh_token |-> token]))
                   => /\ now > token.exp => last'.code = HTTP_401_UNAUTHORIZED
                      /\ (now <= token.exp /\ UserExists(token.user_id))
                            => last'.code = HTTP_200_OK]_vars

C14_Witness ==
    /\ last.op = "get_user_by_id"
    /\ last.code = HTTP_401_UNAUTHORIZED
    /\ last.token \in HeldTokens
    /\ last.token.type = "access"
    /\ UserExists(last.token.user_id)
    /\ last.token.exp = AccessTTL
    /\ now = AccessTTL + 1
\* C15: for every stored user and a password that verifies against its
\* digest, login and login_email with the user's email, and with the user's
\* username, answer 200; the access token returned has type access, is
\* accepted as the bearer token of that user, and carries the stored id, email
\* and global role; the refresh token returned carries the same three with
\* type refresh.
C15_LoginIssuesTokensOfStoredUser ==
    [][\A u \in DOMAIN users, pw \in PasswordInputs :
          verify_password(pw, users[u].hashed_password) =>
             \A i \in {users[u].email, users[u].username} :
                (\/ login([username |-> i, password |-> pw])
                 \/ login_email([email_or_username |-> i, password |-> pw]))
                => /\ last'.code = HTTP_200_OK
                   /\ last'.resp.access_token.type = "access"
                   /\ get_current_user(last'.resp.access_token) = u
                   /\ last'.resp.access_token.user_id = u
                   /\ last'.resp.access_token.email = users[u].email
                   /\ last'.resp.access_token.role = users[u].role
                   /\ last'.resp.refresh_token.type = "refresh"
                   /\ last'.resp.refresh_token.user_id = u
                   /\ last'.resp.refresh_token.email = users[u].email
                   /\ last'.resp.refresh_token.role = users[u].role]_vars

C15_Witness ==
    /\ last.op = "login_email"
    /\ last.code = HTTP_200_OK
    /\ last.target = 2
    /\ users[2].role = "admin"
    /\ last.resp.access_token.role = "admin"
    /\ last.resp.refresh_token.user_id = 2
    /\ now > 0

\* every stored user the identifier i names fails the password pw
WrongPassword(matched, pw) ==
    /\ matched # {}
    /\ \A u \in matched : users[u].hashed_password # get_password_hash(pw)

\* a login request that is answered without a token and changes nothing
Rejected ==
    /\ last'.code # HTTP_200_OK
    /\ last'.resp = NoBody
    /\ UNCHANGED <<db, issued>>

NamedBy(i) ==
    {u \in DOMAIN users :
        \/ users[u].email = i
        \/ users[u].username = i
        \/ users[u].email = Strip(Lower(i))}

IssuedAt(pair) == pair.access_token.exp - AccessTTL

\* C17 as stated: refresh with a held refresh token that is answered 200
\* returns an access token of the same user_id that differs from the access
\* token of the pair the refresh token came with, whenever it is made.
C17_RefreshGivesDistinctToken ==
    [][\A pair \in issued :
          (/\ refresh_token([refresh_token |-> pair.refresh_token])
           /\ last'.code = HTTP_200_OK)
          => /\ last'.resp.access_token.user_id = pair.refresh_token.user_id
             /\ last'.resp.access_token # pair.access_token]_vars

\* C17, amended: refresh with a held, unexpired refresh token of an existing
\* user is answered 200 with an access token of the same user_id that expires
\* 15 minutes after the refresh; it expires later than, and so differs from,
\* the access token of the pair the refresh token came with whenever the
\* refresh is made in a later second than that pair was issued.
C17_RefreshGivesLaterToken ==
    [][\A pair \in issued :
          (/\ refresh_token([refresh_token |-> pair.refresh_token])
           /\ pair.refresh_token.exp >= now
           /\ UserExists(pair.refresh_token.user_id))
          => /\ last'.code = HTTP_200_OK
             /\ last'.resp.access_token.user_id = pair.refresh_token.user_id
             /\ last'.resp.access_token.exp = now + 15 * 60
             /\ now > IssuedAt(pair)
                   => /\ last'.resp.access_token.exp > pair.access_token.exp
                      /\ last'.resp.access_token # pair.access_token]_vars

C17_Witness ==
    /\ last.op = "refresh_token"
    /\ last.code = HTTP_200_OK
    /\ now = RefreshTTL
    /\ \E pair \in issued :
          /\ pair.refresh_token = last.token
          /\ pair.refresh_token.exp = now
          /\ last.resp.access_token.user_id = pair.access_token.user_id
          /\ last.resp.access_token.exp > pair.access_token.exp

\* C18: the email and role claims of both tokens a refresh returns are the
\* ones stored for the user when the refresh is made, whatever the presented
\* token carries; refresh with a token of a user_id that no stored user has is
\* answered 401 without a token.
C18_RefreshReadsUserRecord ==
    [][\A token \in TokenInputs :
          refresh_token([refresh_token |-> token])
          => /\ last'.code = HTTP_200_OK
                   => /\ UserExists(token.user_id)
                      /\ last'.resp.access_token.email = users[token.user_id].email
                      /\ last'.resp.access_token.role = users[token.user_id].role
                      /\ last'.resp.refresh_token.email = users[token.user_id].email
                      /\ last'.resp.refresh_token.role = users[token.user_id].role
             /\ ~UserExists(token.user_id)
                   => /\ last'.code = HTTP_401_UNAUTHORIZED
                      /\ last'.resp = NoBody]_vars

C18_Witness ==
    /\ last.op = "refresh_token"
    /\ last.code = HTTP_200_OK
    /\ last.token.role = "member"
    /\ users[last.token.user_id].role = "admin"
    /\ last.resp.access_token.role = "admin"
    /\ last.resp.refresh_token.role = "admin"

\* C19 as stated: a request with an access token is authorized by the role
\* claim of that token: get_user_by_id for another user's id is answered 403
\* exactly when the token's role claim is not admin.
C19_AuthorizedByTokenRole ==
    [][\A token \in HeldTokens, id \in UserIdInputs :
          (/\ Bearer(token, "get_user_by_id", id, get_user_by_id(get_current_user(token), id))
           /\ last'.code # HTTP_401_UNAUTHORIZED
           /\ token.user_id # id)
          => (last'.code = HTTP_403_FORBIDDEN <=> token.role # "admin")]_vars

\* C19, amended: a request with an access token is authorized by the role
\* stored for the token's user when the request is made, whatever role claim
\* the token carries: get_user_by_id for another user's id is answered 403
\* exactly when the stored role is not admin.
C19_AuthorizedByStoredRole ==
    [][\A token \in HeldTokens, id \in UserIdInputs :
          (/\ Bearer(token, "get_user_by_id", id, get_user_by_id(get_current_user(token), id))
           /\ last'.code # HTTP_401_UNAUTHORIZED
           /\ token.user_id # id)
          => (last'.code = HTTP_403_FORBIDDEN <=> users[token.user_id].role # "admin")]_vars

C19_Witness ==
    /\ last.op = "get_user_by_id"
    /\ last.code = HTTP_200_OK
    /\ last.caller # last.target
    /\ users[last.caller].role = "admin"
    /\ \A token \in HeldTokens : token.user_id = last.caller => token.role = "member"

(***************************************************************************)
(* Grants.  The admin and user 2 have logged in at startup and keep using  *)
(* the access tokens they got; the admin changes user 2's memberships and  *)
(* deletes teams between user 2's requests.                                *)
(***************************************************************************)
LoginPair(user) ==
    LET token_data == [user_id |-> user,
                       email   |-> SeedUsers[user].email,
                       role    |-> SeedUsers[user].role]
    IN [access_token  |-> jwt_encode(token_data @@ [exp |-> AccessTTL, type |-> "access"],
                                     SECRET_KEY),
        refresh_token |-> jwt_encode(token_data @@ [exp |-> RefreshTTL, type |-> "refresh"],
                                     SECRET_KEY)]

InitGrants ==
    /\ users = SeedUsers
    /\ teams = TwoTeams
    /\ members = SeedMembers
    /\ projects = << >>
    /\ tasks = << >>
    /\ last = Idle
    /\ now = 0
    /\ issued = {LoginPair(AdminUser), LoginPair(2)}
    /\ inflight = << >>

AccessTokens == {pair.access_token : pair \in issued}

\* the requests of a bearer against a team: create_project in it, get_project,
\* update_project, delete_project and create_task on a project
TeamRequest(token, team_id, p) ==
    \/ Bearer(token, "create_project", NoneId,
              create_project(get_current_user(token), [name |-> TitleA, description |-> NoneText,
                                            team_id |-> team_id]))
    \/ Bearer(token, "get_project", p, get_project(get_current_user(token), p))
    \/ Bearer(token, "update_project", p,
              update_project(get_current_user(token), p, [name |-> TitleB, description |-> NoneText,
                                               team_id |-> NoneId]))
    \/ Bearer(token, "delete_project", p, delete_project(get_current_user(token), p))
    \/ Bearer(token, "create_task", NoneId,
              create_task(get_current_user(token), [title |-> TitleA, description |-> NoneText,
                                         status |-> "todo", project_id |-> p,
                                         assignee_id |-> NoneId]))

NextGrants ==
    \/ \E token \in AccessTokens, t \in {1, 2}, p \in ProjectIdInputs :
          TeamRequest(token, t, p)
    \/ \E token \in AccessTokens, t \in {1, 2} :
          Bearer(token, "add_team_member", t,
                 add_team_member(get_current_user(token), t, [user_id |-> 2, role |-> "member"]))
    \/ \E token \in AccessTokens, t \in {1, 2} :
          Bearer(token, "remove_team_member", t,
                 remove_team_member(get_current_user(token), t, 2))
    \/ \E token \in AccessTokens, t \in {1, 2} :
          Bearer(token, "delete_team", t, delete_team(get_current_user(token), t))

SpecGrants == InitGrants /\ [][NextGrants]_vars

(***************************************************************************)
(* Claims on grants (SpecGrants).                                          *)
(***************************************************************************)

\* the requests of TeamRequest that are against team_id in the current state
Against(token, team_id, p) ==
    /\ TeamRequest(token, team_id, p)
    /\ last'.op # "create_project"
          => p \in DOMAIN projects /\ projects[p].team_id = team_id

\* C20: when remove_team_member or delete_team has committed, the rows it
\* removes are gone, and the very next request against that team by a
\* non-admin bearer without a membership row for it is refused (403, or 404
\* once the team is deleted) and changes nothing, with the access token the
\* bearer had before; when add_team_member has committed, the row is there and
\* the very next request against that team by that bearer succeeds.
C20_GrantsAreNotCached ==
    [][/\ (last'.op \in {"remove_team_member", "delete_team"}
             /\ last'.code = HTTP_200_OK /\ last' # last)
             => /\ last'.op = "remove_team_member"
                      => \A m \in members' : ~(m.team_id = last'.target /\ m.user_id = 2)
                /\ last'.op = "delete_team"
                      => /\ last'.target \notin DOMAIN teams'
                         /\ \A m \in members' : m.team_id # last'.target
       /\ \A token \in AccessTokens, p \in ProjectIdInputs :
             ~IsAdmin(token.user_id) =>
                /\ (/\ last.op \in {"remove_team_member", "delete_team"}
                    /\ last.code = HTTP_200_OK
                    /\ ~HasMembership(last.target, token.user_id)
                    /\ Against(token, last.target, p))
                      => /\ last'.code \in {HTTP_403_FORBIDDEN, HTTP_404_NOT_FOUND}
                         /\ TeamExists(last.target) => last'.code = HTTP_403_FORBIDDEN
                         /\ UNCHANGED db
                /\ (/\ last.op = "add_team_member"
                    /\ last.code = HTTP_201_CREATED
                    /\ HasMembership(last.target, token.user_id)
                    /\ Against(token, last.target, p))
                      => last'.code \in {HTTP_200_OK, HTTP_201_CREATED}]_vars

C20_Witness ==
    /\ last.op = "get_project"
    /\ last.code = HTTP_403_FORBIDDEN
    /\ last.caller = 2
    /\ ProjectExists(last.target)
    /\ projects[last.target].creator_id = 2
    /\ ~HasMembership(projects[last.target].team_id, 2)
    /\ \E token \in AccessTokens : token.user_id = 2 /\ token.exp >= now

(***************************************************************************)
(* Sessions with logout.                                                   *)
(***************************************************************************)
NextLogout ==
    \/ NextAuth
    \/ logout

SpecLogout == InitAuth /\ [][NextLogout]_vars

\* the token passes Depends(get_current_user)
AccessAccepted(token) == get_current_user(token) # NoneId

\* the token passes the checks of refresh_token
RefreshAccepted(token) ==
    /\ jwt_decode_ok(token)
    /\ token.user_id # NoneId
    /\ token.type = "refresh"
    /\ UserExists(token.user_id)

\* C21: a logout step changes no stored state, and every token, held or
\* forged, is accepted as an access token or as a refresh token after it
\* exactly when it was before it; a refresh token answered with new tokens is
\* still accepted for refresh afterwards, and refresh_token answers 200
\* exactly for the tokens RefreshAccepted describes.
C21_LogoutRevokesNothing ==
    [][/\ (last'.op = "logout" /\ last' # last)
            => /\ UNCHANGED <<db, now, issued>>
               /\ \A token \in TokenInputs :
                     /\ AccessAccepted(token)' = AccessAccepted(token)
                     /\ RefreshAccepted(token)' = RefreshAccepted(token)
       /\ (last'.op = "refresh_token" /\ last' # last)
            => /\ (last'.code = HTTP_200_OK) = RefreshAccepted(last'.token)
               /\ \A token \in TokenInputs :
                     (token = last'.token /\ last'.code = HTTP_200_OK)
                        => RefreshAccepted(token)'
               /\ UNCHANGED db]_vars

\* after a logout, later than the login, the pair the client got is still
\* accepted
C21_Witness ==
    /\ last.op = "logout"
    /\ now > 0
    /\ \E pair \in issued :
          /\ AccessAccepted(pair.access_token)
          /\ RefreshAccepted(pair.refresh_token)

(***************************************************************************)
(* Claims on the order of the checks (Spec).                               *)
(***************************************************************************)

\* C22: an authenticated non-admin caller who names a team, project or task
\* id that does not exist is answered 404, never 403: whenever a non-admin is
\* answered 403, the team, project or task the request named exists.
C22_NotFoundBeforeDenied ==
    (/\ last.code = HTTP_403_FORBIDDEN
     /\ UserExists(last.caller)
     /\ ~IsAdmin(last.caller))
       => /\ last.op \in {"get_team", "list_team_members", "add_team_member",
                          "remove_team_member", "delete_team"}
                => TeamExists(last.target)
          /\ last.op \in {"get_project", "update_project", "delete_project"}
                => ProjectExists(last.target)
          /\ last.op \in {"get_task", "update_task", "update_task_status",
                          "delete_task", "assign_task", "unassign_task"}
                => TaskExists(last.target)

(***************************************************************************)
(* Accounts, teams and memberships: signup and the admin's team requests.  *)
(***************************************************************************)
NewEmail == <<"x", "@", "t", ".", "c", "o">>

NewName == <<"x", "x", "x">>

SignupInputs ==
    [email    : {BobEmail, <<"B", "@", "t", ".", "c", "o">>, NewEmail, <<"x", "@", "t">>},
     username : {BobName, <<"b", "o", "b">>, NewName},
     password : {BobPassword, <<"l", "e", "t", "m", "e", "i", "n">>},
     role     : {"member"}]

TeamNameInputs ==
    [name : {OtherTeamName, <<" ">> \o OtherTeamName, DefaultTeamName},
     description : {NoneText},
     member_ids : {<< >>, <<2, 4>>, <<2, 2>>}]

NextUnique ==
    \/ \E user \in SignupInputs : signup(user)
    \/ \E u \in {AdminUser, 2}, team \in TeamNameInputs : create_team(u, team)
    \/ \E u \in {AdminUser, 2}, t \in TeamIdInputs, m \in {2, 4}, r \in {"member", "lead"} :
          add_team_member(u, t, [user_id |-> m, role |-> r])
    \/ \E u \in {AdminUser, 2}, t \in TeamIdInputs, m \in {2, 4} : remove_team_member(u, t, m)
    \/ \E u \in {AdminUser, 2}, t \in TeamIdInputs : delete_team(u, t)

SpecUnique == Init /\ [][NextUnique]_vars

\* the unique columns and the composite primary key
Unique ==
    /\ \A u, v \in DOMAIN users :
          u # v => /\ users[u].email # users[v].email
                   /\ users[u].username # users[v].username
    /\ \A t, w \in DOMAIN teams : t # w => teams[t].name # teams[w].name
    /\ \A m, n \in members :
          (m.team_id = n.team_id /\ m.user_id = n.user_id) => m = n

NextRefs ==
    \/ Next
    \/ \E u \in Callers :
          create_task(u, [title |-> TitleA, description |-> NoneText,
                          status |-> "todo", project_id |-> 1, assignee_id |-> 4])
    \/ \E u \in Callers, t \in TaskIdInputs :
          update_task(u, t, [title |-> NoneText, description |-> NoneText,
                             status |-> NoneEnum, assignee_id |-> 4])
    \/ \E u \in Callers, t \in TaskIdInputs : assign_task(u, t, 4)

SpecRefs == Init /\ [][NextRefs]_vars

\* the foreign keys of models.py
ForeignKeys ==
    /\ \A m \in members : TeamExists(m.team_id) /\ UserExists(m.user_id)
    /\ \A p \in DOMAIN projects : TeamExists(projects[p].team_id)
    /\ \A t \in DOMAIN tasks :
          /\ ProjectExists(tasks[t].project_id)
          /\ tasks[t].assignee_id = NoneId \/ UserExists(tasks[t].assignee_id)

\* C24: in every reachable state every membership row names an existing team
\* and an existing user, every project an existing team, every task an
\* existing project and an assignee that is null or an existing user; a
\* delete_team answered 200 leaves no membership and no project of that team
\* and no task of those projects, and a delete_project answered 200 leaves no
\* task of that project.
C24_ReferencesExist ==
    /\ []ForeignKeys
    /\ [][/\ (last'.op = "delete_team" /\ last'.code = HTTP_200_OK /\ last' # last)
                => /\ last'.target \notin DOMAIN teams'
                   /\ \A m \in members' : m.team_id # last'.target
                   /\ \A p \in DOMAIN projects' : projects'[p].team_id # last'.target
                   /\ \A t \in DOMAIN tasks' :
                         tasks'[t].project_id \notin TeamProjects(last'.target)
          /\ (last'.op = "delete_project" /\ last'.code = HTTP_200_OK /\ last' # last)
                => /\ last'.target \notin DOMAIN projects'
                   /\ \A t \in DOMAIN tasks' : tasks'[t].project_id # last'.target]_vars

\* the default team was deleted, and the admin's membership of it with it,
\* while the other team keeps its project and the task of that project
C24_Witness ==
    /\ last.op = "delete_team"
    /\ last.code = HTTP_200_OK
    /\ last.target = 1
    /\ \A m \in members : m.team_id # 1
    /\ \E p \in DOMAIN projects :
          /\ projects[p].team_id = 2
          /\ \E t \in DOMAIN tasks : tasks[t].project_id = p
    /\ \E m \in members : m.team_id = 2

(***************************************************************************)
(* Passwords: signup and change_password with passwords at the limits of   *)
(* the policy.                                                             *)
(***************************************************************************)
Fill(n, c) == [i \in 1..n |-> c]

\* a password of n characters with a letter, a digit and the given last one
Pw(n, c) == <<"a", "1">> \o Fill(n - 3, "x") \o <<c>>

NewPasswordInputs ==
    {Pw(7, "x"), Pw(8, "x"), Pw(128, "x"), Pw(129, "x"), Pw(73, "x"), Pw(73, "b"),
     Fill(8, "x"), Fill(8, "1")}

NextPasswords ==
    \/ \E pw \in NewPasswordInputs :
          signup([email |-> NewEmail, username |-> NewName, password |-> pw,
                  role |-> "member"])
    \/ \E u \in {2, 3, 4}, cur \in {BobPassword} \cup NewPasswordInputs,
          pw \in NewPasswordInputs :
          /\ UserExists(u)
          /\ change_password(u, [current_password |-> cur, new_password |-> pw])

SpecPasswords == Init /\ [][NextPasswords]_vars

\* the policy in the words of the specification
PolicyAccepts(pw) ==
    /\ Len(pw) >= 8
    /\ Len(pw) <= 128
    /\ \E k \in 1..Len(pw) : pw[k] \in PasswordLetters
    /\ \E k \in 1..Len(pw) : pw[k] \in Digits

\* C25: a signup with a free email and username, and a change_password with
\* the right current password, is accepted exactly if the new password has 8
\* to 128 characters, a letter and a digit; a rejected one changes nothing;
\* after an accepted one the stored digest verifies that password and no other
\* password.
C25_PasswordPolicy ==
    [][/\ (last'.op = "signup" /\ last' # last)
            => \A pw \in NewPasswordInputs :
                  signup([email |-> NewEmail, username |-> NewName, password |-> pw,
                          role |-> "member"])
                     => /\ (last'.code = HTTP_200_OK) = PolicyAccepts(pw)
                        /\ last'.code # HTTP_200_OK => UNCHANGED db
                        /\ last'.code = HTTP_200_OK
                              => \A other \in NewPasswordInputs :
                                    verify_password(other,
                                        users'[last'.target].hashed_password)
                                    = (other = pw)
       /\ (last'.op = "change_password" /\ last' # last)
            => \A cur \in {BobPassword} \cup NewPasswordInputs,
                  pw \in NewPasswordInputs :
                  (/\ verify_password(cur, users[last'.caller].hashed_password)
                   /\ change_password(last'.caller,
                                      [current_password |-> cur, new_password |-> pw]))
                     => /\ (last'.code = HTTP_200_OK) = PolicyAccepts(pw)
                        /\ last'.code # HTTP_200_OK => UNCHANGED db
                        /\ last'.code = HTTP_200_OK
                              => \A other \in NewPasswordInputs :
                                    verify_password(other,
                                        users'[last'.caller].hashed_password)
                                    = (other = pw)]_vars

(***************************************************************************)
(* Roles: the requests of anonymous callers and of users whose role is     *)
(* member; the admin sends nothing.                                        *)
(***************************************************************************)
MemberCallers == {u \in DOMAIN users : ~IsAdmin(u)}

NextRoles ==
    \/ \E e \in {NewEmail, BobEmail}, r \in UserRole :
          signup([email |-> e, username |-> NewName, password |-> BobPassword,
                  role |-> r])
    \/ \E i \in {BobName, NewName}, pw \in {BobPassword, AdminPassword} :
          login([username |-> i, password |-> pw])
    \/ \E u \in MemberCallers, cur \in {BobPassword}, pw \in {AdminPassword, BobPassword} :
          change_password(u, [current_password |-> cur, new_password |-> pw])
    \/ \E u \in MemberCallers, team \in TeamCreateInputs : create_team(u, team)
    \/ \E u \in MemberCallers, m \in {2, 4} :
          add_team_member(u, 1, [user_id |-> m, role |-> "admin"])
    \/ \E u \in MemberCallers, id \in UserIdInputs : get_user_by_id(u, id)

SpecRoles == Init /\ [][NextRoles]_vars

\* C27: while only anonymous callers and users whose role is member send
\* requests, the only user whose role is admin is the one the startup seed
\* made.
C27_NoAdminFromSignup ==
    \A u \in DOMAIN users : IsAdmin(u) => u = AdminUser

(***************************************************************************)
(* Every request of the three routers, and requests that end in each kind  *)
(* of error: a token signed with another key, a signup that is invalid or  *)
(* names a taken email, a change_password with a wrong current password,   *)
(* an update_project that renames the project and moves it to a team the   *)
(* caller has no access to or that does not exist.                         *)
(***************************************************************************)
ForgedToken == [LoginPair(2).access_token EXCEPT !.key = "guess"]

NextErrors ==
    \/ NextRefs
    \/ \E u \in Callers, p \in ProjectIdInputs, t \in {2, 3} :
          update_project(u, p, [name |-> TitleB, description |-> DescrA,
                                team_id |-> t])
    \/ \E p \in ProjectIdInputs :
          Bearer(ForgedToken, "delete_project", p,
                 delete_project(get_current_user(ForgedToken), p))
    \/ \E e \in {BobEmail, <<"x", "@", "t">>} :
          signup([email |-> e, username |-> NewName, password |-> BobPassword,
                  role |-> "member"])
    \/ \E u \in Callers, pw \in {BobPassword, Fill(8, "x")} :
          change_password(u, [current_password |-> Fill(8, "x"),
                              new_password |-> pw])

SpecErrors == Init /\ [][NextErrors]_vars

ErrorCodes ==
    {HTTP_400_BAD_REQUEST, HTTP_401_UNAUTHORIZED, HTTP_403_FORBIDDEN,
     HTTP_404_NOT_FOUND, HTTP_422_UNPROCESSABLE_ENTITY}

\* C28: a request answered 400, 401, 403, 404 or 422 leaves users, teams,
\* memberships, projects and tasks as they were; an update_project refused on
\* its new team_id leaves the name and the description of the project as they
\* were.
C28_ErrorsChangeNothing ==
    [][last'.code \in ErrorCodes => UNCHANGED db]_vars

\* an update_project of a member of the project's team was refused for the
\* new team
C28_Witness ==
    /\ last.op = "update_project"
    /\ last.code \in {HTTP_403_FORBIDDEN, HTTP_404_NOT_FOUND}
    /\ ProjectExists(last.target)
    /\ ~IsAdmin(last.caller)
    /\ HasMembership(projects[last.target].team_id, last.caller)
    /\ projects[last.target].name # TitleB

(***************************************************************************)
(* Claims on create_team with member_ids (Spec).                           *)
(***************************************************************************)

\* C29: a create_team of an admin either is answered 201, with the team
\* stored and exactly one membership row with team role member for each
\* distinct listed id of an existing user, or stores no team.
C29_CreateTeamAddsListedMembers ==
    [][(last'.op = "create_team" /\ last' # last /\ IsAdmin(last'.caller))
          => \A team \in TeamCreateInputs :
                create_team(last'.caller, team)
                   => IF last'.code = HTTP_201_CREATED
                      THEN /\ last'.target \in (DOMAIN teams') \ (DOMAIN teams)
                           /\ members' = members \cup
                                 {[team_id |-> last'.target, user_id |-> u,
                                   role |-> "member"] :
                                      u \in {team.member_ids[i] :
                                               i \in 1..Len(team.member_ids)}
                                            \cap DOMAIN users}
                      ELSE teams' = teams]_vars

(***************************************************************************)
(* Requests served concurrently.  A handler that looks a row up and then   *)
(* inserts runs in two steps: the queries (and what they raise), and       *)
(* db.add with db.commit.  Between the two the request is in inflight, and *)
(* other requests take their steps.  The commit is where the database      *)
(* enforces the unique indexes and primary keys of models.py: it raises    *)
(* IntegrityError, which no handler catches, and the request ends 500.     *)
(***************************************************************************)
Finish(r, op, caller, target, code) ==
    /\ last' = Served(op, caller, target, code, NoBody)
    /\ inflight' = [q \in (DOMAIN inflight) \ {r} |-> inflight[q]]
    /\ UNCHANGED <<now, issued>>

Enter(r, request) ==
    /\ inflight' = [q \in (DOMAIN inflight) \cup {r} |->
                       IF q = r THEN request ELSE inflight[q]]
    /\ UNCHANGED <<db, last, now, issued>>

\* signup up to "Create new user with hashed password"
signup_check(r, user) ==
    /\ r \notin DOMAIN inflight
    /\ IF ~(/\ UserBase_email_ok(user.email)
            /\ UserBase_username_ok(user.username)
            /\ validate_password_ok(user.password)
            /\ user.role \in UserRole)
       THEN Refuse("signup", NoneId, NoneId, HTTP_422_UNPROCESSABLE_ENTITY)
       ELSE IF \E u \in DOMAIN users : users[u].email = UserBase_email(user.email)
       THEN Refuse("signup", NoneId, NoneId, HTTP_400_BAD_REQUEST)
       ELSE IF \E u \in DOMAIN users :
                  users[u].username = UserBase_username(user.username)
       THEN Refuse("signup", NoneId, NoneId, HTTP_400_BAD_REQUEST)
       ELSE \/ Enter(r, [op |-> "signup", user |-> user])
            \/ /\ hash_raises(user.password)
               /\ Refuse("signup", NoneId, NoneId, HTTP_500_INTERNAL_SERVER_ERROR)

\* signup from db.add(db_user) on: User.email and User.username are unique
signup_commit(r) ==
    /\ r \in DOMAIN inflight
    /\ inflight[r].op = "signup"
    /\ LET user == inflight[r].user
           id == NewId(DOMAIN users)
           db_user == [role            |-> user.role,
                       email           |-> UserBase_email(user.email),
                       username        |-> UserBase_username(user.username),
                       hashed_password |-> get_password_hash(user.password)]
       IN IF \E u \in DOMAIN users : \/ users[u].email = db_user.email
                                     \/ users[u].username = db_user.username
          THEN /\ Finish(r, "signup", NoneId, NoneId, HTTP_500_INTERNAL_SERVER_ERROR)
               /\ UNCHANGED db
          ELSE /\ id <= MaxUsers
               /\ users' = [u \in (DOMAIN users) \cup {id} |->
                               IF u = id THEN db_user ELSE users[u]]
               /\ Finish(r, "signup", NoneId, id, HTTP_200_OK)
               /\ UNCHANGED <<teams, members, projects, tasks>>

\* add_team_member up to "Create team membership"
add_team_member_check(r, current_user, team_id, member_data) ==
    /\ r \notin DOMAIN inflight
    /\ IF check_admin_permission(current_user)
       THEN Refuse("add_team_member", current_user, team_id, HTTP_403_FORBIDDEN)
       ELSE IF ~TeamExists(team_id)
       THEN Refuse("add_team_member", current_user, team_id, HTTP_404_NOT_FOUND)
       ELSE IF ~UserExists(member_data.user_id)
       THEN Refuse("add_team_member", current_user, team_id, HTTP_404_NOT_FOUND)
       ELSE IF HasMembership(team_id, member_data.user_id)
       THEN Refuse("add_team_member", current_user, team_id, HTTP_400_BAD_REQUEST)
       ELSE Enter(r, [op |-> "add_team_member", current_user |-> current_user,
                      team_id |-> team_id, member_data |-> member_data])

\* mutant: team_members has no primary key
add_team_member_commit_NoKey(r) ==
    /\ r \in DOMAIN inflight
    /\ inflight[r].op = "add_team_member"
    /\ LET current_user == inflight[r].current_user
           team_id == inflight[r].team_id
           member_data == inflight[r].member_data
       IN /\ members' = members \cup {[team_id |-> team_id,
                                        user_id |-> member_data.user_id,
                                        role    |-> member_data.role]}
          /\ Finish(r, "add_team_member", current_user, team_id,
                    HTTP_201_CREATED)
          /\ UNCHANGED <<users, teams, projects, tasks>>

\* add_team_member from db.add(team_member) on: (team_id, user_id) is the
\* primary key of TeamMember
add_team_member_commit(r) ==
    /\ r \in DOMAIN inflight
    /\ inflight[r].op = "add_team_member"
    /\ LET current_user == inflight[r].current_user
           team_id == inflight[r].team_id
           member_data == inflight[r].member_data
       IN IF HasMembership(team_id, member_data.user_id)
          THEN /\ Finish(r, "add_team_member", current_user, team_id,
                         HTTP_500_INTERNAL_SERVER_ERROR)
               /\ UNCHANGED db
          ELSE /\ members' = members \cup {[team_id |-> team_id,
                                             user_id |-> member_data.user_id,
                                             role    |-> member_data.role]}
               /\ Finish(r, "add_team_member", current_user, team_id,
                         HTTP_201_CREATED)
               /\ UNCHANGED <<users, teams, projects, tasks>>

\* create_team up to "Create new team"
create_team_check(r, current_user, team) ==
    /\ r \notin DOMAIN inflight
    /\ IF ~validate_name_ok(team.name)
       THEN Refuse("create_team", current_user, NoneId, HTTP_422_UNPROCESSABLE_ENTITY)
       ELSE IF check_admin_permission(current_user)
       THEN Refuse("create_team", current_user, NoneId, HTTP_403_FORBIDDEN)
       ELSE IF \E t \in DOMAIN teams : teams[t].name = validate_name(team.name)
       THEN Refuse("create_team", current_user, NoneId, HTTP_400_BAD_REQUEST)
       ELSE Enter(r, [op |-> "create_team", current_user |-> current_user,
                      team |-> team])

\* create_team from db.add(db_team) on: Team.name is unique; then the
\* membership rows and their commit, as in create_team
create_team_commit(r) ==
    /\ r \in DOMAIN inflight
    /\ inflight[r].op = "create_team"
    /\ LET current_user == inflight[r].current_user
           team == inflight[r].team
           id == NewId(DOMAIN teams)
           db_team == [name        |-> validate_name(team.name),
                       description |-> validate_description(team.description)]
           listed == ExistingOf(team.member_ids)
       IN IF \E t \in DOMAIN teams : teams[t].name = db_team.name
          THEN /\ Finish(r, "create_team", current_user, NoneId,
                         HTTP_500_INTERNAL_SERVER_ERROR)
               /\ UNCHANGED db
          ELSE /\ id <= MaxTeams
               /\ teams' = [t \in (DOMAIN teams) \cup {id} |->
                               IF t = id THEN db_team ELSE teams[t]]
               /\ IF HasDuplicate(listed)
                  THEN /\ members' = members
                       /\ Finish(r, "create_team", current_user, id,
                                 HTTP_500_INTERNAL_SERVER_ERROR)
                  ELSE /\ members' = members \cup
                             {[team_id |-> id, user_id |-> listed[i],
                               role |-> "member"] : i \in 1..Len(listed)}
                       /\ Finish(r, "create_team", current_user, id,
                                 HTTP_201_CREATED)
               /\ UNCHANGED <<users, projects, tasks>>

RaceSignups ==
    {[email |-> NewEmail, username |-> NewName, password |-> BobPassword,
      role |-> "member"],
     [email |-> NewEmail, username |-> <<"v", "v", "v">>, password |-> BobPassword,
      role |-> "member"],
     [email |-> <<"v", "@", "t", ".", "c", "o">>, username |-> NewName,
      password |-> BobPassword, role |-> "member"]}

NextRace ==
    \/ \E r \in 1..MaxInflight, user \in RaceSignups : signup_check(r, user)
    \/ \E r \in 1..MaxInflight : signup_commit(r)
    \/ \E r \in 1..MaxInflight, role \in {"member", "lead"} :
          add_team_member_check(r, AdminUser, 1, [user_id |-> 2, role |-> role])
    \/ \E r \in 1..MaxInflight : add_team_member_commit(r)
    \/ \E r \in 1..MaxInflight, d \in {NoneText, DescrA} :
          create_team_check(r, AdminUser,
                            [name |-> OtherTeamName, description |-> d,
                             member_ids |-> << >>])
    \/ \E r \in 1..MaxInflight : create_team_commit(r)
    \/ \E u \in {AdminUser} : remove_team_member(u, 1, 2)
    \/ \E u \in {AdminUser} : delete_team(u, 2)

SpecRace == Init /\ [][NextRace]_vars

====
